---- MODULE Spec2Model ----
(***************************************************************************)
(* Identity resolution, context synthesis and the button policy of the     *)
(* PROXe WhatsApp service (customerService.js, claudeService.js).          *)
(*                                                                         *)
(* JavaScript strings are sequences of one-character strings.  null and    *)
(* values that are not strings are one-element sequences holding a token   *)
(* that is no character, so that every value is a sequence and can be      *)
(* compared with every other.                                              *)
(***************************************************************************)
EXTENDS Integers, Sequences, FiniteSets, TLC

VARIABLES
  allLeads,         \* the rows of all_leads
  whatsappSessions, \* the rows of whatsapp_sessions
  messagesTable,    \* the rows of messages, oldest first
  nextId,           \* the id the store gives the next inserted lead
  now,              \* the latest instant new Date() has returned
  pc,               \* where each request is suspended (its pending await)
  call,             \* the call each request is in: operation and arguments
  loc,              \* the local variables of that call
  outcome,          \* what the call that ended last returned or threw
  callsMade,        \* number of calls started so far
  failures,         \* number of store operations that have failed so far
  returnedLeads,    \* (phone, brand, id) of every lead getOrCreateLead returned
  buildLog,         \* the completed buildCustomerContext calls
  normIn,           \* argument of the normalizePhoneNumber call under test
  normOut,          \* its result, and the result of normalizing that result
  btnIn,            \* arguments of the determineButtonPair call under test
  btnOut,           \* the buttons it returned
  shapeOut,         \* what parseResponse returned for the same arguments
  genCall,          \* the generateResponse call: its arguments and its position
  genOut,           \* what that call returned or threw
  ctxIn,            \* the rows a buildCustomerContext call under test has read
  ctxOut,           \* the context it assembled from them
  customers,        \* the rows of customers
  historyTable,     \* the rows of conversation_history, in insertion order
  conversationLogs, \* the rows of conversation_logs, in insertion order
  req,              \* the local variables of each /message request
  responses,        \* the responses the route has sent
  contactsDone      \* the message_count the customer started with, and the
                    \* number of updateCustomerContact calls that have returned

storeVars == <<allLeads, whatsappSessions, messagesTable, nextId>>
procVars == <<pc, call, loc, outcome, callsMade, failures>>
histVars == <<returnedLeads, buildLog>>
normVars == <<normIn, normOut>>
btnVars == <<btnIn, btnOut, shapeOut>>
genVars == <<genCall, genOut>>
ctxVars == <<ctxIn, ctxOut>>
sinkVars == <<customers, historyTable, conversationLogs>>
routeVars == <<req, responses, contactsDone>>
vars == <<allLeads, whatsappSessions, messagesTable, nextId, now, pc, call,
          loc, outcome, callsMade, failures, returnedLeads, buildLog,
          normIn, normOut, btnIn, btnOut, shapeOut, genCall, genOut,
          ctxIn, ctxOut, customers, historyTable, conversationLogs,
          req, responses, contactsDone>>

----------------------------------------------------------------------------
(* JavaScript values *)

Null == <<"null">>
NumberValue == <<"number">>

IsString(v) == v # Null /\ v # NumberValue

\* !v for the values of the model: null and '' are falsy, a number other
\* than 0 and a non-empty string are truthy
Truthy(v) == v # Null /\ v # <<>>

Digits == {"0", "1", "2", "3", "4", "5", "6", "7", "8", "9"}

----------------------------------------------------------------------------
(* String operations of JavaScript used by the services *)

UpperLetters == <<"A","B","C","D","E","F","G","H","I","J","K","L","M",
                  "N","O","P","Q","R","S","T","U","V","W","X","Y","Z">>
LowerLetters == <<"a","b","c","d","e","f","g","h","i","j","k","l","m",
                  "n","o","p","q","r","s","t","u","v","w","x","y","z">>

LowerChar(c) ==
  IF \E i \in 1..Len(UpperLetters) : UpperLetters[i] = c
  THEN LowerLetters[CHOOSE i \in 1..Len(UpperLetters) : UpperLetters[i] = c]
  ELSE c

\* s.toLowerCase()
ToLowerCase(s) == [i \in 1..Len(s) |-> LowerChar(s[i])]

\* kw occurs in s at the 1-based position i
MatchAt(s, kw, i) ==
  /\ i >= 1
  /\ i + Len(kw) - 1 <= Len(s)
  /\ \A j \in 1..Len(kw) : s[i + j - 1] = kw[j]

\* s.includes(kw)
Includes(s, kw) == \E i \in 1..(Len(s) - Len(kw) + 1) : MatchAt(s, kw, i)

\* s.indexOf(kw): 0-based position of the first occurrence, -1 when none
IndexOf(s, kw) ==
  IF Includes(s, kw)
  THEN (CHOOSE i \in 1..(Len(s) - Len(kw) + 1) :
          /\ MatchAt(s, kw, i)
          /\ \A k \in 1..(i - 1) : ~MatchAt(s, kw, k)) - 1
  ELSE -1

\* s.substring(start, end), for 0 <= start <= end <= s.length
Substring(s, start, end) == SubSeq(s, start + 1, end)

WhiteSpace == {" ", "\n", "\t"}

RECURSIVE TrimStart(_)
TrimStart(s) ==
  IF s # <<>> /\ Head(s) \in WhiteSpace THEN TrimStart(Tail(s)) ELSE s

RECURSIVE TrimEnd(_)
TrimEnd(s) ==
  IF s # <<>> /\ s[Len(s)] \in WhiteSpace
  THEN TrimEnd(SubSeq(s, 1, Len(s) - 1))
  ELSE s

\* s.trim()
Trim(s) == TrimEnd(TrimStart(s))

RECURSIVE Join(_, _)
\* parts.join(sep)
Join(parts, sep) ==
  IF parts = <<>> THEN <<>>
  ELSE IF Len(parts) = 1 THEN parts[1]
  ELSE parts[1] \o sep \o Join(Tail(parts), sep)

\* array.reverse()
Reverse(a) == [i \in 1..Len(a) |-> a[Len(a) + 1 - i]]

\* array.slice(0, n)
Take(a, n) == SubSeq(a, 1, IF Len(a) < n THEN Len(a) ELSE n)

\* array.includes(x)
Contains(a, x) == \E i \in 1..Len(a) : a[i] = x

----------------------------------------------------------------------------
(* normalizePhoneNumber *)

RECURSIVE ReplaceAllNonDigits(_)
\* phone.replace(/\D/g, ''): scan left to right, drop every match of \D
ReplaceAllNonDigits(s) ==
  IF s = <<>> THEN <<>>
  ELSE IF Head(s) \in Digits
       THEN <<Head(s)>> \o ReplaceAllNonDigits(Tail(s))
       ELSE ReplaceAllNonDigits(Tail(s))

RECURSIVE ReplaceFirstNonDigit(_)
\* phone.replace(/\D/, ''): the regex without its g flag drops one match
ReplaceFirstNonDigit(s) ==
  IF s = <<>> THEN <<>>
  ELSE IF Head(s) \in Digits
       THEN <<Head(s)>> \o ReplaceFirstNonDigit(Tail(s))
       ELSE Tail(s)

normalizePhoneNumberNoGlobalFlag(phone) ==
  IF ~Truthy(phone) \/ ~IsString(phone) THEN <<>>
  ELSE ReplaceFirstNonDigit(phone)

\* phone.replace(/[^\d+]/g, ''): the leading + of the web format is kept
normalizePhoneNumberKeepsPlus(phone) ==
  IF ~Truthy(phone) \/ ~IsString(phone) THEN <<>>
  ELSE SelectSeq(phone, LAMBDA c : c \in Digits \cup {"+"})

normalizePhoneNumber(phone) ==
  IF ~Truthy(phone) \/ ~IsString(phone) THEN <<>>
  ELSE ReplaceAllNonDigits(phone)

----------------------------------------------------------------------------
(* The tables: all_leads, whatsapp_sessions, messages *)

Brands == {"proxe", "windchasers"}

\* an array-valued field that is absent
NoArray == <<Null>>

\* a || b
OrElse(a, b) == IF Truthy(a) THEN a ELSE b

\* a || b for array-valued fields: every array is truthy, also the empty one
OrElseArray(a, b) == IF a # NoArray THEN a ELSE b

\* unified_context: {} when a lead is created here (leadData.metadata || {})
EmptyUnified ==
  [booking_date |-> Null, booking_time |-> Null, booking_status |-> Null,
   budget |-> Null, tags |-> NoArray,
   web_conversation_summary |-> Null, web_summary |-> Null,
   web_last_conversation_summary |-> Null,
   web_booking_date |-> Null, web_booking_time |-> Null,
   web_booking_status |-> Null,
   web_user_inputs |-> NoArray, web_inputs |-> NoArray,
   web_past_interests |-> NoArray, web_interests |-> NoArray,
   web_conversations |-> Null, web_messages |-> Null,
   web_chat_history |-> Null]

\* a unified_context written by the web channel: a summary, a booking and
\* the inputs of the web conversation
WebUnified ==
  [EmptyUnified EXCEPT
     !.web_summary = <<"a","s","k","e","d"," ","a","b","o","u","t"," ","p","r","i","c","i","n","g">>,
     !.web_booking_date = <<"2","0","2","5","-","0","1","-","1","0">>,
     !.booking_status = <<"c","o","n","f","i","r","m","e","d">>,
     !.web_inputs = << <<"n","e","e","d"," ","c","r","m">>,
                       <<"b","u","d","g","e","t"," ","i","s"," ","5","k">> >>]

NoLead ==
  [id |-> 0, customer_phone_normalized |-> <<>>, phone |-> <<>>,
   customer_name |-> Null, email |-> Null,
   first_touchpoint |-> "", last_touchpoint |-> "", brand |-> "",
   last_interaction_at |-> 0, unified_context |-> EmptyUnified,
   created_at |-> 0, updated_at |-> 0]

NoSession ==
  [id |-> 0, external_session_id |-> <<>>, brand |-> "",
   customer_name |-> Null, message_count |-> 0,
   conversation_summary |-> Null, conversation_status |-> Null,
   last_message_at |-> 0]

\* .single(): the row when the query selects exactly one, otherwise no data
\* (and an error: PGRST116)
Single(rows, none) ==
  IF Cardinality(rows) = 1 THEN CHOOSE r \in rows : TRUE ELSE none

\* .from('all_leads').select('*') with the brand filter left out
SelectLeadsAnyBrand(leads, key, brand) ==
  {r \in leads : r.customer_phone_normalized = key}

\* .from('all_leads').select('*').eq('customer_phone_normalized', key).eq('brand', brand)
SelectLeads(leads, key, brand) ==
  {r \in leads : r.customer_phone_normalized = key /\ r.brand = brand}

\* a store without the uniqueness constraint
UniqueViolationNever(leads, row) == FALSE

\* the uniqueness constraint of all_leads on (customer_phone_normalized, brand)
UniqueViolation(leads, row) ==
  \E r \in leads :
    /\ r.customer_phone_normalized = row.customer_phone_normalized
    /\ r.brand = row.brand

----------------------------------------------------------------------------
(* getCustomerFullContext, and the helpers of buildCustomerContext *)

NullBooking ==
  [booking_date |-> Null, booking_time |-> Null, booking_status |-> Null,
   exists |-> FALSE]

EmptyFullContext ==
  [conversationSummary |-> Null, booking |-> NullBooking,
   userInputs |-> <<>>, webConversations |-> Null]

\* what getCustomerFullContext builds from the lead row it fetched
FullContextOf(lead) ==
  LET uc == lead.unified_context
      conversationSummary ==
        OrElse(uc.web_conversation_summary,
          OrElse(uc.web_summary,
            OrElse(uc.web_last_conversation_summary, Null)))
      booking ==
        [booking_date   |-> OrElse(uc.booking_date, OrElse(uc.web_booking_date, Null)),
         booking_time   |-> OrElse(uc.booking_time, OrElse(uc.web_booking_time, Null)),
         booking_status |-> OrElse(uc.booking_status, OrElse(uc.web_booking_status, Null)),
         exists |-> \/ Truthy(uc.booking_date) \/ Truthy(uc.web_booking_date)
                    \/ Truthy(uc.booking_time) \/ Truthy(uc.web_booking_time)]
      userInputs ==
        OrElseArray(uc.web_user_inputs,
          OrElseArray(uc.web_inputs,
            OrElseArray(uc.web_past_interests,
              OrElseArray(uc.web_interests, <<>>))))
      webConversations ==
        OrElse(uc.web_conversations,
          OrElse(uc.web_messages,
            OrElse(uc.web_chat_history, Null)))
  IN [conversationSummary |-> conversationSummary,
      booking |-> IF booking.exists THEN booking ELSE NullBooking,
      userInputs |-> userInputs,
      webConversations |-> webConversations]

InterestKeywords ==
  << <<"p","r","o","p","e","r","t","y">>,
     <<"p","r","o","p","e","r","t","i","e","s">>,
     <<"s","q","f","t">>,
     <<"b","u","d","g","e","t">>,
     <<"l","o","c","a","t","i","o","n">>,
     <<"a","r","e","a">>,
     <<"r","e","n","t">> >>

InterestWindow == 20
InterestsLimit == 5
AllInterestsLimit == 10
SummaryMessages == 5
SummaryLimit == 500
LastMessagesLimit == 10
MessagesLimit == 20

Max(a, b) == IF a > b THEN a ELSE b
Min(a, b) == IF a < b THEN a ELSE b

\* the window as it is cut, white space at its ends kept
extractContextNoTrim(text, keyword) ==
  LET index == IndexOf(text, keyword)
      start == Max(0, index - InterestWindow)
      end   == Min(Len(text), index + Len(keyword) + InterestWindow)
  IN Substring(text, start, end)

extractContext(text, keyword) ==
  LET index == IndexOf(text, keyword)
      start == Max(0, index - InterestWindow)
      end   == Min(Len(text), index + Len(keyword) + InterestWindow)
  IN Trim(Substring(text, start, end))

RECURSIVE ScanKeywords(_, _, _)
\* keywords.forEach over the keywords from the k-th on, for one content
ScanKeywords(content, k, interests) ==
  IF k > Len(InterestKeywords) THEN interests
  ELSE LET keyword == InterestKeywords[k]
           context == extractContext(content, keyword)
           pushed  == IF /\ Includes(content, keyword)
                         /\ Truthy(context)
                         /\ ~Contains(interests, context)
                      THEN Append(interests, context)
                      ELSE interests
       IN ScanKeywords(content, k + 1, pushed)

RECURSIVE ScanMessages(_, _)
\* messages.forEach, in the order of the array
ScanMessages(msgs, interests) ==
  IF msgs = <<>> THEN interests
  ELSE LET content == IF Truthy(Head(msgs).content)
                      THEN ToLowerCase(Head(msgs).content)
                      ELSE <<>>
           scanned == ScanKeywords(content, 1, interests)
       \* a message adds at most one interest for each keyword; the test
       \* has scanned evaluated before the next message is taken
       IN IF Len(scanned) <= Len(interests) + Len(InterestKeywords)
          THEN ScanMessages(Tail(msgs), scanned)
          ELSE scanned

extractInterests(msgs) == Take(ScanMessages(msgs, <<>>), InterestsLimit)

\* the classifier with the counts 3 and 8 taken into the earlier phase
determinePhaseInclusive(msgs) ==
  LET messageCount == Len(msgs)
  IN IF messageCount <= 3 THEN "discovery"
     ELSE IF messageCount <= 8 THEN "evaluation"
     ELSE "closing"

determinePhase(msgs) ==
  LET messageCount == Len(msgs)
  IN IF messageCount = 0 THEN "discovery"
     ELSE IF messageCount < 3 THEN "discovery"
     ELSE IF messageCount < 8 THEN "evaluation"
     ELSE "closing"

\* a placeholder with another wording
NewCustomerSummaryOtherWording == <<"N","o"," ","p","r","e","v","i","o","u","s"," ","c","o","n","v","e","r","s","a","t","i","o","n",".">>

NewCustomerSummary ==
  <<"N","e","w"," ","c","u","s","t","o","m","e","r",","," ","n","o"," ",
    "p","r","e","v","i","o","u","s"," ",
    "c","o","n","v","e","r","s","a","t","i","o","n",".">>

generateSummary(msgs) ==
  IF Len(msgs) = 0 THEN NewCustomerSummary
  ELSE LET recentMessages == Reverse(Take(msgs, SummaryMessages))
           lines == [i \in 1..Len(recentMessages) |->
                       recentMessages[i].sender \o <<":", " ">>
                         \o recentMessages[i].content]
           summary == Join(lines, <<" ", "|", " ">>)
       IN IF Len(summary) > SummaryLimit
          THEN Substring(summary, 0, SummaryLimit) \o <<".", ".", ".">>
          ELSE summary

\* the merge with the interests of the messages put first
MergeInterestsChannelFirst(userInputs, previousInterests) ==
  LET all == previousInterests \o userInputs
      kept == SelectSeq([i \in 1..Len(all) |-> <<i, all[i]>>],
                        LAMBDA e : /\ \A j \in 1..(e[1] - 1) : all[j] # e[2]
                                   /\ Truthy(e[2])
                                   /\ Truthy(Trim(e[2])))
  IN Take([k \in 1..Len(kept) |-> kept[k][2]], AllInterestsLimit)

\* [...userInputs, ...previousInterests].filter(first occurrence, non-blank)
\*   .slice(0, 10)
MergeInterests(userInputs, previousInterests) ==
  LET all == userInputs \o previousInterests
      keep(i) == /\ \A j \in 1..(i - 1) : all[j] # all[i]
                 /\ Truthy(all[i])
                 /\ Truthy(Trim(all[i]))
      kept == SelectSeq([i \in 1..Len(all) |-> <<i, all[i]>>],
                        LAMBDA e : keep(e[1]))
  IN Take([k \in 1..Len(kept) |-> kept[k][2]], AllInterestsLimit)

\* the context object buildCustomerContext returns
AssembleContext(lead, fullContext, session, msgs) ==
  LET hasSession == session # NoSession
      uc == lead.unified_context
      previousInterests == extractInterests(msgs)
      conversationPhase == determinePhase(msgs)
      webSummary == OrElse(fullContext.conversationSummary, <<>>)
      whatsappSummary ==
        OrElse(IF hasSession THEN session.conversation_summary ELSE Null,
               generateSummary(msgs))
      combinedSummary ==
        IF Truthy(webSummary)
        THEN IF whatsappSummary # NewCustomerSummary
             THEN <<"W","e","b",":"," ">> \o webSummary \o <<"\n">>
                    \o <<"W","h","a","t","s","A","p","p",":"," ">>
                    \o whatsappSummary
             ELSE <<"W","e","b",":"," ">> \o webSummary
        ELSE whatsappSummary
      allInterests == MergeInterests(fullContext.userInputs, previousInterests)
      shown == Reverse(Take(msgs, LastMessagesLimit))
  IN [customerId |-> lead.id,
      leadId |-> lead.id,
      name |-> OrElse(lead.customer_name,
                      IF hasSession THEN session.customer_name ELSE Null),
      phone |-> lead.phone,
      brand |-> lead.brand,
      firstTouchpoint |-> lead.first_touchpoint,
      lastTouchpoint |-> lead.last_touchpoint,
      firstContact |-> lead.created_at,
      lastContact |-> lead.last_interaction_at,
      conversationCount |-> IF hasSession THEN session.message_count ELSE 0,
      conversationPhase |-> conversationPhase,
      previousInterests |-> allInterests,
      budget |-> OrElse(uc.budget, Null),
      conversationSummary |-> combinedSummary,
      lastMessages |->
        [i \in 1..Len(shown) |->
           [role |-> IF shown[i].sender = <<"c","u","s","t","o","m","e","r">>
                     THEN "user" ELSE "assistant",
            content |-> shown[i].content,
            timestamp |-> shown[i].created_at]],
      tags |-> OrElseArray(uc.tags, <<>>),
      metadata |-> uc,
      webConversationSummary |-> fullContext.conversationSummary,
      booking |-> fullContext.booking,
      webUserInputs |-> fullContext.userInputs,
      webConversations |-> fullContext.webConversations,
      sessionData |->
        IF hasSession
        THEN [present |-> TRUE,
              sessionId |-> session.id,
              conversationStatus |->
                OrElse(session.conversation_status, <<"active">>),
              lastMessageAt |-> session.last_message_at]
        ELSE [present |-> FALSE, sessionId |-> 0,
              conversationStatus |-> Null, lastMessageAt |-> 0]]

\* .from('whatsapp_sessions').select('*').eq('external_session_id', sessionId)
\*   .eq('brand', brand)
SelectSessions(sessions, sessionId, brand) ==
  {s \in sessions : s.external_session_id = sessionId /\ s.brand = brand}

\* .from('messages').select('*').eq('lead_id', id).eq('channel', 'whatsapp')
\*   .order('created_at', { ascending: false }).limit(20)
SelectMessages(table, leadId) ==
  Take(Reverse(SelectSeq(table,
                 LAMBDA m : m.lead_id = leadId /\ m.channel = "whatsapp")),
       MessagesLimit)

----------------------------------------------------------------------------
(* claudeService.js: determineButtonPair *)

\* the reply's wording alone, the booking of the context left out
hasBookingReplyOnly(customerContext, lowerResponse) ==
  \/ Includes(lowerResponse, <<"b","o","o","k","i","n","g"," ","c","o","n","f","i","r","m","e","d">>)
  \/ Includes(lowerResponse, <<"d","e","m","o"," ","i","s"," ","c","o","n","f","i","r","m","e","d">>)
  \/ Includes(lowerResponse, <<"a","l","r","e","a","d","y"," ","h","a","v","e"," ","a"," ","d","e","m","o">>)

\* customerContext?.booking?.exists alone
hasBookingContextOnly(customerContext, lowerResponse) ==
  customerContext.booking.exists

\* const hasBooking: the booking of the context, or a reply that speaks of
\* a confirmed booking
hasBooking(customerContext, lowerResponse) ==
  \/ customerContext.booking.exists
  \/ Includes(lowerResponse, <<"b","o","o","k","i","n","g"," ","c","o","n","f","i","r","m","e","d">>)
  \/ Includes(lowerResponse, <<"d","e","m","o"," ","i","s"," ","c","o","n","f","i","r","m","e","d">>)
  \/ Includes(lowerResponse, <<"a","l","r","e","a","d","y"," ","h","a","v","e"," ","a"," ","d","e","m","o">>)

howFeatureKeywords ==
  <<<<"h","o","w">>, <<"f","e","a","t","u","r","e">>, <<"w","h","a","t"," ","c","a","n">>, <<"w","h","a","t"," ","d","o","e","s">>, <<"h","o","w"," ","d","o","e","s">>, <<"h","o","w"," ","i","t"," ","w","o","r","k","s">>, <<"c","a","p","a","b","i","l","i","t","y">>, <<"c","a","n"," ","i","t">>>>

ClosingPhrases ==
  <<<<"t","h","a","n","k","s">>, <<"t","h","a","n","k"," ","y","o","u">>, <<"o","k">>, <<"o","k","a","y">>, <<"b","y","e">>, <<"g","o","o","d","b","y","e">>, <<"s","e","e"," ","y","o","u">>, <<"t","t","y","l">>>>

\* the regex without its $ anchor: the phrase at the start is enough
TestClosingUnanchored(s) ==
  \E k \in 1..Len(ClosingPhrases) : MatchAt(s, ClosingPhrases[k], 1)

\* /^(thanks|thank you|ok|okay|bye|goodbye|see you|ttyl)[\s!.]*$/i.test(s)
TestClosing(s) ==
  \E k \in 1..Len(ClosingPhrases) :
    /\ MatchAt(s, ClosingPhrases[k], 1)
    /\ \A i \in (Len(ClosingPhrases[k]) + 1)..Len(s) :
         s[i] \in WhiteSpace \cup {"!", "."}

EngagedCount == 3

determineButtonPair(userMessage, aiResponse, messageCount, isNewUser, customerContext) ==
  LET lowerMessage == ToLowerCase(userMessage)
      lowerResponse == ToLowerCase(aiResponse)
      booked == hasBooking(customerContext, lowerResponse)
  IN IF booked /\ (\/ Includes(lowerMessage, <<"r","e","s","c","h","e","d","u","l","e">>)
                   \/ Includes(lowerMessage, <<"c","h","a","n","g","e"," ","t","i","m","e">>)
                   \/ Includes(lowerMessage, <<"d","i","f","f","e","r","e","n","t"," ","t","i","m","e">>))
     THEN <<"Confirm Reschedule">>
     ELSE IF booked /\ (\/ Includes(lowerMessage, <<"c","a","n","c","e","l">>)
                        \/ Includes(lowerMessage, <<"c","a","n","c","e","l"," ","b","o","o","k","i","n","g">>)
                        \/ Includes(lowerMessage, <<"c","a","n","c","e","l"," ","d","e","m","o">>))
     THEN <<"Confirm Cancel">>
     ELSE IF booked
     THEN <<"Ask a Question">>
     ELSE IF \/ Includes(lowerResponse, <<"$","9","9">>)
             \/ Includes(lowerResponse, <<"$","1","9","9">>)
             \/ Includes(lowerResponse, <<"9","9","/","m","o","n","t","h">>)
             \/ Includes(lowerResponse, <<"1","9","9","/","m","o","n","t","h">>)
             \/ /\ \/ Includes(lowerMessage, <<"p","r","i","c","e">>)
                   \/ Includes(lowerMessage, <<"p","r","i","c","i","n","g">>)
                   \/ Includes(lowerMessage, <<"c","o","s","t">>)
                /\ \/ Includes(lowerResponse, <<"$">>)
                   \/ Includes(lowerResponse, <<"m","o","n","t","h">>)
     THEN <<"Book Demo">>
     ELSE IF \E k \in 1..Len(howFeatureKeywords) :
               \/ Includes(lowerMessage, howFeatureKeywords[k])
               \/ Includes(lowerResponse, howFeatureKeywords[k])
     THEN <<"See Demo">>
     ELSE IF TestClosing(Trim(lowerMessage))
     THEN <<"Book Demo">>
     ELSE IF isNewUser \/ messageCount = 0
     THEN <<"Learn More">>
     ELSE IF messageCount >= EngagedCount
     THEN <<"Book Demo">>
     ELSE <<"Learn More">>

----------------------------------------------------------------------------
(* claudeService.js: parseResponse *)

\* the character U+2192 (rightwards arrow), kept as one element
Arrow == "->"

RECURSIVE SkipSpace(_, _)
\* \s*: the position after the run of white space that starts at i
SkipSpace(s, i) ==
  IF i <= Len(s) /\ s[i] \in WhiteSpace THEN SkipSpace(s, i + 1) ELSE i

RECURSIVE LineEnd(_, _)
\* .+ from i: the last position of the run without line break that starts at i
LineEnd(s, i) ==
  IF i + 1 <= Len(s) /\ s[i + 1] # "\n" THEN LineEnd(s, i + 1) ELSE i

\* the match of /→\s*BUTTON:\s*(.+)/i that starts at i: its last position,
\* 0 when there is none.  When only white space follows "BUTTON:", the
\* second \s* gives back and (.+) takes the last character that is no line
\* break.
MarkerEndAt(s, i) ==
  IF i > Len(s) \/ s[i] # Arrow THEN 0
  ELSE LET k == SkipSpace(s, i + 1)
           word == <<"b","u","t","t","o","n",":">>
       IN IF ~MatchAt(ToLowerCase(s), word, k) THEN 0
          ELSE LET a == k + Len(word)
                   j == SkipSpace(s, a)
                   back == {q \in a..Len(s) : s[q] # "\n"}
               IN IF j <= Len(s) THEN LineEnd(s, j)
                  ELSE IF back = {} THEN 0
                  ELSE CHOOSE q \in back : \A r \in back : r <= q

\* text.replace(match, ''): the first occurrence of the string match
ReplaceFirst(text, match) ==
  IF Includes(text, match)
  THEN LET p == IndexOf(text, match)
       IN SubSeq(text, 1, p) \o SubSeq(text, p + Len(match) + 1, Len(text))
  ELSE text

RECURSIVE StripMarkers(_, _, _)
\* while ((match = buttonRegex.exec(rawResponse)) !== null)
\*   text = text.replace(match[0], '').trim();
\* from is lastIndex + 1
StripMarkers(rawResponse, from, text) ==
  LET starts == {i \in from..Len(rawResponse) : MarkerEndAt(rawResponse, i) # 0}
  IN IF starts = {} THEN text
     ELSE LET i == CHOOSE x \in starts : \A y \in starts : x <= y
              e == MarkerEndAt(rawResponse, i)
          IN StripMarkers(rawResponse, e + 1,
                          Trim(ReplaceFirst(text, SubSeq(rawResponse, i, e))))

UrgentKeywords == <<<<"u","r","g","e","n","t">>, <<"a","s","a","p">>, <<"i","m","m","e","d","i","a","t","e","l","y">>, <<"e","m","e","r","g","e","n","c","y">>>>
HighKeywords == <<<<"i","m","p","o","r","t","a","n","t">>, <<"s","o","o","n">>, <<"t","o","d","a","y">>, <<"q","u","i","c","k","l","y">>>>

\* buttons only when the backend suggested one
parseResponseSuggestedOnly(rawResponse, userMessage, messageCount, isNewUser, customerContext) ==
  LET text == StripMarkers(rawResponse, 1, rawResponse)
      buttons == IF text # rawResponse
                 THEN determineButtonPair(userMessage, rawResponse,
                                          messageCount, isNewUser,
                                          customerContext)
                 ELSE <<>>
  IN [text |-> Trim(text),
      responseType |-> IF Len(buttons) > 0 THEN "text_with_buttons"
                       ELSE "text_only",
      buttons |-> buttons,
      urgency |-> "normal",
      nextAction |-> IF Len(buttons) > 0 THEN "wait_for_response"
                     ELSE "continue_conversation"]

parseResponse(rawResponse, userMessage, messageCount, isNewUser, customerContext) ==
  LET text == StripMarkers(rawResponse, 1, rawResponse)
      buttons == determineButtonPair(userMessage, rawResponse, messageCount,
                                     isNewUser, customerContext)
      lowerText == ToLowerCase(text)
      urgency ==
        IF \E k \in 1..Len(UrgentKeywords) : Includes(lowerText, UrgentKeywords[k])
        THEN "urgent"
        ELSE IF \E k \in 1..Len(HighKeywords) : Includes(lowerText, HighKeywords[k])
        THEN "high"
        ELSE "normal"
  IN [text |-> Trim(text),
      responseType |-> IF Len(buttons) > 0 THEN "text_with_buttons"
                       ELSE "text_only",
      buttons |-> buttons,
      urgency |-> urgency,
      nextAction |-> IF Len(buttons) > 0 THEN "wait_for_response"
                     ELSE "continue_conversation"]

----------------------------------------------------------------------------
(* claudeService.js: generateResponse *)

\* /^(hi|hello|hey|hii+|good\s*(morning|evening|afternoon)|thanks|thank you|
\*    ok|okay|bye)[\s!.]*$/i.test(message.trim())
simpleGreeting(message) ==
  LET s == ToLowerCase(Trim(message))
      words == {<<"h","i">>, <<"h","e","l","l","o">>, <<"h","e","y">>, <<"t","h","a","n","k","s">>, <<"t","h","a","n","k"," ","y","o","u">>, <<"o","k">>,
                <<"o","k","a","y">>, <<"b","y","e">>}
      dayTimes == {<<"m","o","r","n","i","n","g">>, <<"e","v","e","n","i","n","g">>, <<"a","f","t","e","r","n","o","o","n">>}
      \* the alternation matches the first n characters of s
      Alternative(n) ==
        \/ \E w \in words : n = Len(w) /\ MatchAt(s, w, 1)
        \/ n >= 3 /\ s[1] = "h" /\ \A j \in 2..n : s[j] = "i"
        \/ \E w \in dayTimes :
             /\ n - Len(w) >= 4
             /\ MatchAt(s, <<"g","o","o","d">>, 1)
             /\ \A j \in 5..(n - Len(w)) : s[j] \in WhiteSpace
             /\ MatchAt(s, w, n - Len(w) + 1)
  IN \E n \in 1..Len(s) :
       /\ Alternative(n)
       /\ \A i \in (n + 1)..Len(s) : s[i] \in WhiteSpace \cup {"!", "."}

\* error.status of a failure that carries none
NoStatus == 0 - 1

DecimalDigits == <<"0","1","2","3","4","5","6","7","8","9">>

RECURSIVE DecimalText(_)
\* `${n}` for a number n >= 0
DecimalText(n) ==
  IF n < 10 THEN <<DecimalDigits[n + 1]>>
  ELSE DecimalText(n \div 10) \o <<DecimalDigits[(n % 10) + 1]>>

\* the catch block with statusCode always 500
enhancedErrorAlways500(error) ==
  [message |-> OrElse(error.message, <<"U","n","k","n","o","w","n"," ","e","r","r","o","r">>),
   statusCode |-> 500,
   originalError |-> error]

\* the catch block of generateResponse: the error it throws
enhancedError(error) ==
  LET message == OrElse(error.message, <<"U","n","k","n","o","w","n"," ","e","r","r","o","r">>)
      errorMessage ==
        IF \/ error.status = 401
           \/ Includes(message, <<"a","u","t","h","e","n","t","i","c","a","t","i","o","n">>)
           \/ Includes(message, <<"i","n","v","a","l","i","d"," ","x","-","a","p","i","-","k","e","y">>)
        THEN <<"C","l","a","u","d","e"," ","A","P","I"," ","a","u","t","h","e","n","t","i","c","a","t","i","o","n"," ","f","a","i","l","e","d","."," ","P","l","e","a","s","e"," ","c","h","e","c","k"," ","y","o","u","r"," ","C","L","A","U","D","E","_","A","P","I","_","K","E","Y"," ","i","n"," ",".","e","n","v",".","l","o","c","a","l","."," ","E","r","r","o","r",":"," ">>
               \o message
        ELSE IF error.status = 429
        THEN <<"C","l","a","u","d","e"," ","A","P","I"," ","r","a","t","e"," ","l","i","m","i","t"," ","e","x","c","e","e","d","e","d","."," ","P","l","e","a","s","e"," ","t","r","y"," ","a","g","a","i","n"," ","l","a","t","e","r",".">>
        ELSE IF error.status # NoStatus /\ error.status >= 500
        THEN <<"C","l","a","u","d","e"," ","A","P","I"," ","s","e","r","v","e","r"," ","e","r","r","o","r"," ","(">> \o DecimalText(error.status)
               \o <<")","."," ","P","l","e","a","s","e"," ","t","r","y"," ","a","g","a","i","n"," ","l","a","t","e","r",".">>
        ELSE message
  IN [message |-> errorMessage,
      statusCode |-> IF error.status = NoStatus \/ error.status = 0
                     THEN 500 ELSE error.status,
      originalError |-> error]

\* conversationHistory.filter(msg => msg.role === 'assistant').length
AssistantTurns(conversationHistory) ==
  Len(SelectSeq(conversationHistory, LAMBDA msg : msg.role = "assistant"))

\* what generateResponse returns for the backend's response
generatedReply(response, args, responseTime) ==
  LET parsed == parseResponse(response.text, args.message,
                              AssistantTurns(args.conversationHistory),
                              args.isNewUser, args.customerContext)
  IN [rawResponse |-> parsed.text,
      responseType |-> parsed.responseType,
      buttons |-> parsed.buttons,
      urgency |-> parsed.urgency,
      nextAction |-> parsed.nextAction,
      tokensUsed |-> response.output_tokens,
      responseTime |-> responseTime]

----------------------------------------------------------------------------
(* The requests: getOrCreateLead and buildCustomerContext *)

MaxCalls == 2
MaxBuilds == 3
MaxTime == 1
MaxFailures == 1

\* new Date(): the clock never runs backwards; the new Date() calls of one
\* statement read the same instant
ReadClock(t) ==
  /\ t \in now..MaxTime
  /\ now' = t

\* whether the store operation of this step fails (a network or database
\* error other than "no row")
StoreAnswers(fails) ==
  /\ fails => failures < MaxFailures
  /\ failures' = IF fails THEN failures + 1 ELSE failures

Procs == {"r1", "r2"}

CustomerSender == <<"c","u","s","t","o","m","e","r">>
AssistantSender == <<"a","s","s","i","s","t","a","n","t">>

\* raw phones the requests pass: the WhatsApp format and the web format of
\* one number, a string without digits, the empty string, a missing value
CallPhones ==
  {<<"9","1">>, <<"+","9","1">>, <<"+">>, <<>>, Null}

CallNames == {Null, <<"A","s","h","a">>}

\* the sessionId of a /message request: the two formats, and no digits
SessionIds == {<<"9","1">>, <<"+","9","1">>, <<"+">>}

\* brand = 'proxe', the default the route leaves in place
DefaultBrand == "proxe"

EmptyStore == [leads |-> {}, sessions |-> {}, messages |-> <<>>]

\* the store after the web channel has created a lead and the customer has
\* exchanged WhatsApp messages
WebStore ==
  [leads |->
     {[NoLead EXCEPT
         !.id = 1,
         !.customer_phone_normalized = <<"9","1">>,
         !.phone = <<"+","9","1">>,
         !.first_touchpoint = "web",
         !.last_touchpoint = "web",
         !.brand = "proxe",
         !.unified_context = WebUnified]},
   sessions |->
     {[NoSession EXCEPT
         !.id = 1,
         !.external_session_id = <<"9","1">>,
         !.brand = "proxe",
         !.customer_name = <<"A","s","h","a">>,
         !.message_count = 4]},
   messages |->
     <<[lead_id |-> 1, channel |-> "web", sender |-> CustomerSender,
        content |-> <<"h","i">>, created_at |-> 0],
       [lead_id |-> 1, channel |-> "whatsapp", sender |-> CustomerSender,
        content |-> <<"B","u","d","g","e","t"," ","5","k">>, created_at |-> 0],
       [lead_id |-> 1, channel |-> "whatsapp", sender |-> AssistantSender,
        content |-> <<"w","h","a","t"," ","a","r","e","a">>, created_at |-> 0],
       [lead_id |-> 1, channel |-> "whatsapp", sender |-> CustomerSender,
        content |-> <<"o","k">>, created_at |-> 0]>>]

InitialStores == {EmptyStore, WebStore}

NoCall == [op |-> "none", phone |-> <<>>, brand |-> "", name |-> Null]

NoLocals ==
  [normalizedPhone |-> <<>>, existing |-> NoLead, lead |-> NoLead,
   fullContext |-> EmptyFullContext, session |-> NoSession,
   start |-> EmptyStore, swallowed |-> FALSE]

NoReturn == [kind |-> "none", error |-> "", id |-> 0, phone |-> <<>>]

NoButtonCall ==
  [userMessage |-> <<>>, aiResponse |-> <<>>, messageCount |-> 0,
   isNewUser |-> FALSE, customerContext |-> [booking |-> NullBooking]]

NoGenerateCall ==
  [pc |-> "idle", customerContext |-> [booking |-> NullBooking],
   message |-> <<>>, conversationHistory |-> <<>>, isNewUser |-> FALSE]

NoError == [message |-> Null, status |-> NoStatus]

NoReply ==
  [rawResponse |-> <<>>, responseType |-> "", buttons |-> <<>>,
   urgency |-> "", nextAction |-> "", tokensUsed |-> 0, responseTime |-> 0]

NotGenerated ==
  [kind |-> "none", reply |-> NoReply,
   error |-> [message |-> <<>>, statusCode |-> 0, originalError |-> NoError]]

NotShaped ==
  [called |-> FALSE,
   result |-> [text |-> <<>>, responseType |-> "", buttons |-> <<>>,
               urgency |-> "", nextAction |-> ""]]

NoContextCall == [lead |-> NoLead, session |-> NoSession, msgs |-> <<>>]

NotAssembled == [called |-> FALSE, previousInterests |-> <<>>, context |-> <<>>]

\* the customer of updateCustomerContact before its select has answered,
\* and when it has answered without data
NoCustomer == [message_count |-> 0, present |-> FALSE]

\* the local variables of a /message request that has not started
NoRequest ==
  [active |-> FALSE, sessionId |-> <<>>, message |-> <<>>, customerId |-> 0,
   contextLeadId |-> 0, context |-> <<>>, conversationHistory |-> <<>>,
   sent |-> <<>>, messageCount |-> 0, aiResponse |-> <<>>,
   customer |-> NoCustomer, alone |-> TRUE, leadsBefore |-> {}, id |-> 0]

\* no customers row, no history, no log, no /message request
InitSink ==
  /\ customers = {}
  /\ historyTable = <<>>
  /\ conversationLogs = <<>>
  /\ req = [p \in Procs |-> NoRequest]
  /\ responses = {}
  /\ contactsDone = [initial |-> 0, completed |-> 0]

InitHarness ==
  /\ normIn = <<>>
  /\ normOut = [called |-> FALSE, once |-> <<>>, twice |-> <<>>]
  /\ btnIn = NoButtonCall
  /\ btnOut = [called |-> FALSE, buttons |-> <<>>]
  /\ shapeOut = NotShaped
  /\ ctxIn = NoContextCall
  /\ ctxOut = NotAssembled
  /\ InitSink
  /\ genCall = NoGenerateCall
  /\ genOut = NotGenerated

InitIdle ==
  /\ now = 0
  /\ pc = [p \in Procs |-> "idle"]
  /\ call = [p \in Procs |-> NoCall]
  /\ loc = [p \in Procs |-> NoLocals]
  /\ outcome = NoReturn
  /\ callsMade = 0
  /\ failures = 0
  /\ returnedLeads = {}
  /\ buildLog = {}

Init ==
  /\ \E s \in InitialStores :
       /\ allLeads = s.leads
       /\ whatsappSessions = s.sessions
       /\ messagesTable = s.messages
       /\ nextId = Cardinality(s.leads) + 1
  /\ InitIdle
  /\ InitHarness

\* the synchronous head of getOrCreateLead: normalize, throw when nothing is
\* left, else send the select and suspend
EnterGetOrCreateLead(p, op, phone, brand, name) ==
  /\ pc[p] = "idle"
  /\ callsMade < (IF op = "build" THEN MaxBuilds ELSE MaxCalls)
  /\ callsMade' = callsMade + 1
  /\ LET normalizedPhone == normalizePhoneNumber(phone)
     IN IF ~Truthy(normalizedPhone)
        THEN /\ outcome' = [kind |-> "error", error |-> "InvalidPhone",
                             id |-> 0, phone |-> phone]
             /\ UNCHANGED <<pc, call, loc>>
        ELSE /\ outcome' = outcome
             /\ call' = [call EXCEPT ![p] = [op |-> op, phone |-> phone,
                                             brand |-> brand, name |-> name]]
             /\ loc' = [loc EXCEPT ![p] =
                          [NoLocals EXCEPT
                             !.normalizedPhone = normalizedPhone,
                             !.start = IF op = "build"
                                       THEN [leads |-> allLeads,
                                             sessions |-> whatsappSessions,
                                             messages |-> messagesTable]
                                       ELSE EmptyStore]]
             /\ pc' = [pc EXCEPT ![p] = "lead_select"]
  /\ UNCHANGED <<storeVars, now, failures, histVars, normVars, btnVars, genVars, ctxVars, sinkVars, routeVars>>

\* a request calls getOrCreateLead(phone, brand, leadData)
GetOrCreateLeadCall(p) ==
  \E phone \in CallPhones, brand \in Brands, name \in CallNames :
    EnterGetOrCreateLead(p, "lead", phone, brand, name)

\* a request calls buildCustomerContext(sessionId), which starts with
\* getOrCreateLead(sessionId, brand)
BuildCustomerContextCall(p) ==
  \E sessionId \in SessionIds :
    EnterGetOrCreateLead(p, "build", sessionId, DefaultBrand, Null)

\* the select of getOrCreateLead answers; the code goes on to the update
\* when it has a row and to the insert when it has none
LeadSelect(p) ==
  /\ pc[p] = "lead_select"
  /\ \E fails \in BOOLEAN :
       /\ StoreAnswers(fails)
       /\ LET existing ==
                IF fails THEN NoLead
                ELSE Single(SelectLeads(allLeads, loc[p].normalizedPhone,
                                        call[p].brand), NoLead)
          IN /\ loc' = [loc EXCEPT ![p].existing = existing]
             /\ pc' = [pc EXCEPT ![p] =
                         IF existing # NoLead THEN "lead_update"
                         ELSE "lead_insert"]
  /\ UNCHANGED <<storeVars, now, call, outcome, callsMade, histVars, normVars, btnVars, genVars, ctxVars, sinkVars, routeVars>>

\* getOrCreateLead returns lead: to the request, or to buildCustomerContext,
\* which goes on to getCustomerFullContext
LeadReturned(p, lead, swallowed) ==
  /\ returnedLeads' = returnedLeads \cup
       {[phone |-> call[p].phone, brand |-> call[p].brand, id |-> lead.id]}
  /\ IF call[p].op = "lead"
     THEN /\ outcome' = [NoReturn EXCEPT !.kind = "lead", !.id = lead.id]
          /\ pc' = [pc EXCEPT ![p] = "idle"]
          /\ call' = [call EXCEPT ![p] = NoCall]
          /\ loc' = [loc EXCEPT ![p] = NoLocals]
          /\ req' = req
     ELSE IF call[p].op = "customer"
     THEN \* the route has its customer and calls buildCustomerContext,
          \* which starts with getOrCreateLead(sessionId, brand)
          /\ outcome' = outcome
          /\ req' = [req EXCEPT ![p].customerId = lead.id]
          /\ call' = [call EXCEPT ![p] = [op |-> "routebuild",
                                          phone |-> call[p].phone,
                                          brand |-> DefaultBrand,
                                          name |-> Null]]
          /\ loc' = [loc EXCEPT ![p] =
                       [NoLocals EXCEPT
                          !.normalizedPhone =
                             normalizePhoneNumber(call[p].phone)]]
          /\ pc' = [pc EXCEPT ![p] = "lead_select"]
     ELSE /\ outcome' = outcome
          /\ pc' = [pc EXCEPT ![p] = "ctx_full"]
          /\ call' = call
          /\ loc' = [loc EXCEPT ![p].lead = lead,
                                ![p].swallowed = swallowed]
          /\ req' = req
  /\ UNCHANGED <<buildLog, responses>>

\* the call throws error; in a /message request the route hands it to the
\* error handler (next(error)), which answers with an error
Thrown(p, error) ==
  /\ outcome' = [NoReturn EXCEPT !.kind = "error", !.error = error]
  /\ pc' = [pc EXCEPT ![p] = "idle"]
  /\ call' = [call EXCEPT ![p] = NoCall]
  /\ loc' = [loc EXCEPT ![p] = NoLocals]
  /\ req' = [req EXCEPT ![p] = NoRequest]
  /\ responses' = IF req[p].active
                  THEN responses \cup {[by |-> req[p].id, status |-> "error"]}
                  ELSE responses

\* an update that also empties unified_context
TouchedClearsContext(row, t) ==
  [row EXCEPT !.last_touchpoint = "whatsapp",
              !.last_interaction_at = t,
              !.updated_at = t,
              !.unified_context = EmptyUnified]

\* an update that also overwrites first_touchpoint
TouchedFirstTouchpoint(row, t) ==
  [row EXCEPT !.first_touchpoint = "whatsapp",
              !.last_touchpoint = "whatsapp",
              !.last_interaction_at = t,
              !.updated_at = t]

\* an update that also stamps created_at
TouchedCreatedAt(row, t) ==
  [row EXCEPT !.last_touchpoint = "whatsapp",
              !.last_interaction_at = t,
              !.updated_at = t,
              !.created_at = t]

\* the row the update of getOrCreateLead writes
Touched(row, t) ==
  [row EXCEPT !.last_touchpoint = "whatsapp",
              !.last_interaction_at = t,
              !.updated_at = t]

\* the update of last_touchpoint and last_interaction_at answers; its error
\* is not read: without data the row read before is returned
LeadUpdate(p) ==
  /\ pc[p] = "lead_update"
  /\ \E fails \in BOOLEAN, t \in 0..MaxTime :
       /\ StoreAnswers(fails)
       /\ ReadClock(t)
       /\ LET rows == {r \in allLeads : r.id = loc[p].existing.id}
          IN IF fails \/ rows = {}
             THEN /\ allLeads' = allLeads
                  /\ LeadReturned(p, loc[p].existing, TRUE)
             ELSE LET row == CHOOSE r \in rows : TRUE
                      updated == Touched(row, t)
                  IN /\ allLeads' = (allLeads \ {row}) \cup {updated}
                     /\ LeadReturned(p, updated, FALSE)
  /\ UNCHANGED <<whatsappSessions, messagesTable, nextId, callsMade, normVars, btnVars, genVars, ctxVars, sinkVars, contactsDone>>

\* the insert with the two phone columns exchanged
NewLeadRowRawKey(id, normalizedPhone, phone, brand, name, t) ==
  [id |-> id,
   customer_phone_normalized |-> phone,
   phone |-> phone,
   customer_name |-> OrElse(name, Null),
   email |-> Null,
   first_touchpoint |-> "whatsapp",
   last_touchpoint |-> "whatsapp",
   brand |-> brand,
   last_interaction_at |-> t,
   unified_context |-> EmptyUnified,
   created_at |-> t,
   updated_at |-> t]

\* the row getOrCreateLead inserts
NewLeadRow(id, normalizedPhone, phone, brand, name, t) ==
  [id |-> id,
   customer_phone_normalized |-> normalizedPhone,
   phone |-> phone,
   customer_name |-> OrElse(name, Null),
   email |-> Null,
   first_touchpoint |-> "whatsapp",
   last_touchpoint |-> "whatsapp",
   brand |-> brand,
   last_interaction_at |-> t,
   unified_context |-> EmptyUnified,
   created_at |-> t,
   updated_at |-> t]

\* the insert answers: createError is thrown, else the new row is returned
LeadInsert(p) ==
  /\ pc[p] = "lead_insert"
  /\ \E fails \in BOOLEAN, t \in 0..MaxTime :
       /\ StoreAnswers(fails)
       /\ ReadClock(t)
       /\ LET row == NewLeadRow(nextId, loc[p].normalizedPhone, call[p].phone,
                                call[p].brand, call[p].name, t)
          IN IF fails \/ UniqueViolation(allLeads, row)
             THEN /\ Thrown(p, "createError")
                  /\ UNCHANGED <<allLeads, nextId, histVars>>
             ELSE /\ allLeads' = allLeads \cup {row}
                  /\ nextId' = nextId + 1
                  /\ LeadReturned(p, row, FALSE)
  /\ UNCHANGED <<whatsappSessions, messagesTable, callsMade, normVars, btnVars, genVars, ctxVars, sinkVars, contactsDone>>

\* getCustomerFullContext(sessionId, brand): its select answers; an error
\* other than "no row" is thrown
CtxFullContext(p) ==
  /\ pc[p] = "ctx_full"
  /\ \E fails \in BOOLEAN :
       /\ StoreAnswers(fails)
       /\ IF fails
          THEN Thrown(p, "fetchError")
          ELSE LET lead == Single(SelectLeads(allLeads,
                                    normalizePhoneNumber(call[p].phone),
                                    call[p].brand), NoLead)
               IN /\ loc' = [loc EXCEPT ![p].fullContext =
                               IF lead = NoLead THEN EmptyFullContext
                               ELSE FullContextOf(lead)]
                  /\ pc' = [pc EXCEPT ![p] = "ctx_session"]
                  /\ UNCHANGED <<outcome, call, req, responses>>
  /\ UNCHANGED <<storeVars, now, callsMade, histVars, normVars, btnVars, genVars, ctxVars, sinkVars, contactsDone>>

\* the select of the WhatsApp session answers; its error is not read
CtxSession(p) ==
  /\ pc[p] = "ctx_session"
  /\ \E fails \in BOOLEAN :
       /\ StoreAnswers(fails)
       /\ loc' = [loc EXCEPT
               ![p].session =
                  IF fails THEN NoSession
                  ELSE Single(SelectSessions(whatsappSessions, call[p].phone,
                                             call[p].brand), NoSession),
               ![p].swallowed = loc[p].swallowed \/ fails]
  /\ pc' = [pc EXCEPT ![p] = "ctx_messages"]
  /\ UNCHANGED <<storeVars, now, call, outcome, callsMade, histVars, normVars, btnVars, genVars, ctxVars, sinkVars, routeVars>>

\* the select of the messages answers (its error is not read), the context
\* is assembled and returned
CtxMessages(p) ==
  /\ pc[p] = "ctx_messages"
  /\ \E fails \in BOOLEAN :
       /\ StoreAnswers(fails)
       /\ LET msgs == IF fails THEN <<>>
                      ELSE SelectMessages(messagesTable, loc[p].lead.id)
              context == AssembleContext(loc[p].lead, loc[p].fullContext,
                                         loc[p].session, msgs)
          IN IF call[p].op = "routebuild"
             THEN \* the route has its context and calls
                  \* getConversationHistory(customer.id, 10)
                  /\ req' = [req EXCEPT ![p].context = context,
                                        ![p].contextLeadId = context.leadId]
                  /\ pc' = [pc EXCEPT ![p] = "history_read"]
                  /\ call' = [call EXCEPT ![p].op = "route"]
                  /\ UNCHANGED <<outcome, buildLog>>
             ELSE /\ outcome' = [NoReturn EXCEPT !.kind = "context",
                                                 !.id = context.leadId]
                  /\ buildLog' = buildLog \cup
                       {[start |-> loc[p].start,
                         phone |-> call[p].phone,
                         brand |-> call[p].brand,
                         swallowed |-> loc[p].swallowed \/ fails,
                         context |-> context]}
                  /\ pc' = [pc EXCEPT ![p] = "idle"]
                  /\ call' = [call EXCEPT ![p] = NoCall]
                  /\ req' = req
  /\ loc' = [loc EXCEPT ![p] = NoLocals]
  /\ UNCHANGED <<storeVars, now, callsMade, returnedLeads, normVars, btnVars, genVars, ctxVars, sinkVars, responses, contactsDone>>

\* identity resolution: concurrent requests calling getOrCreateLead
Next ==
  \/ \E p \in Procs : GetOrCreateLeadCall(p)
  \/ \E p \in Procs : LeadSelect(p)
  \/ \E p \in Procs : LeadUpdate(p)
  \/ \E p \in Procs : LeadInsert(p)

Spec == Init /\ [][Next]_vars

\* context synthesis: a request stream calling buildCustomerContext, one
\* call after the other
Builders == {"r1"}

NextBuild ==
  \/ \E p \in Builders : BuildCustomerContextCall(p)
  \/ \E p \in Builders : LeadSelect(p)
  \/ \E p \in Builders : LeadUpdate(p)
  \/ \E p \in Builders : LeadInsert(p)
  \/ \E p \in Builders : CtxFullContext(p)
  \/ \E p \in Builders : CtxSession(p)
  \/ \E p \in Builders : CtxMessages(p)

SpecBuild == Init /\ [][NextBuild]_vars

----------------------------------------------------------------------------
(* Claims about getOrCreateLead, under Spec *)

\* the identity key of a raw phone: its digits, in order
KeyOf(phone) ==
  IF IsString(phone) THEN SelectSeq(phone, LAMBDA c : c \in Digits) ELSE <<>>

\* C1: any two getOrCreateLead calls that return, whose raw phones have the
\* same digits and that pass the same brand, return the same Lead id.
C1_SameKeySameLead ==
  \A a \in returnedLeads, b \in returnedLeads :
    (KeyOf(a.phone) = KeyOf(b.phone) /\ a.brand = b.brand) => a.id = b.id

C1_Witness ==
  \E a \in returnedLeads, b \in returnedLeads :
    /\ a.phone = <<"9","1">>
    /\ b.phone = <<"+","9","1">>
    /\ a.brand = b.brand
    /\ a.id = b.id

\* C2: in every state of all_leads, also those reached by interleaved calls
\* for the same phone and brand, at most one row exists per (digits of the
\* phone, brand).
C2_OneRowPerKey ==
  \A r \in allLeads, s \in allLeads :
    (KeyOf(r.phone) = KeyOf(s.phone) /\ r.brand = s.brand) => r = s

\* two requests were in getOrCreateLead for the same new key at once, both
\* had read "no row", and one row has been inserted
C2_Witness ==
  /\ pc["r1"] = "lead_insert"
  /\ pc["r2"] = "idle"
  /\ call["r1"].brand = "windchasers"
  /\ loc["r1"].existing = NoLead
  /\ \E r \in allLeads :
       /\ r.brand = "windchasers"
       /\ KeyOf(r.phone) = KeyOf(call["r1"].phone)
       /\ r.phone # call["r1"].phone

\* C3: when two first-contact calls for one key race against the store's
\* uniqueness constraint, both return the single Lead: as long as no store
\* operation fails for another reason, no call throws the insert's error.
C3_RaceSurfacesNoError ==
  (outcome.kind = "error" /\ outcome.error = "createError") => failures > 0

\* C4: calls with the same raw phone and different brands return different
\* Lead ids, and the Lead a call returns is stored under the call's brand.
C4_BrandsApart ==
  /\ \A a \in returnedLeads, b \in returnedLeads :
       (a.phone = b.phone /\ a.brand # b.brand) => a.id # b.id
  /\ \A a \in returnedLeads :
       \E r \in allLeads : r.id = a.id /\ r.brand = a.brand

C4_Witness ==
  \E a \in returnedLeads, b \in returnedLeads :
    /\ a.phone = b.phone
    /\ a.brand = "proxe"
    /\ b.brand = "windchasers"
    /\ a.id # b.id

\* C5: a getOrCreateLead call whose phone has no digits (the empty string,
\* a value that is no string, a string without digits) ends at once with
\* the invalid-phone error and leaves the store as it was; only calls
\* whose phone has a digit go on to read all_leads.
C5_InvalidPhoneRejected ==
  [][callsMade' # callsMade =>
       IF pc' = pc
       THEN /\ outcome'.kind = "error"
            /\ outcome'.error = "InvalidPhone"
            /\ KeyOf(outcome'.phone) = <<>>
            /\ UNCHANGED storeVars
       ELSE \A p \in Procs :
              pc'[p] # pc[p] =>
                /\ pc'[p] = "lead_select"
                /\ KeyOf(call'[p].phone) # <<>>
                /\ UNCHANGED storeVars]_vars

C5_Witness ==
  /\ outcome.kind = "error"
  /\ outcome.error = "InvalidPhone"
  /\ outcome.phone = <<"+">>
  /\ callsMade = 1
  /\ allLeads = {}

----------------------------------------------------------------------------
(* Claims about buildCustomerContext, under SpecBuild *)

\* the three tables as a call finds them
Tables(leads, sessions, messages) ==
  [leads |-> leads, sessions |-> sessions, messages |-> messages]

\* C8 as stated: a buildCustomerContext call reads only, so when a call
\* ends (by returning or by throwing) the Lead, Session and Message tables
\* are what they were when it started.
C8_BuildReadsOnly ==
  [][\A p \in Builders :
       (pc[p] # "idle" /\ pc'[p] = "idle") =>
         loc[p].start = Tables(allLeads', whatsappSessions', messagesTable')]_vars

\* C8 amended: no step of a buildCustomerContext call changes the Session
\* or the Message table, and the Lead table changes only inside the
\* getOrCreateLead call it starts with: either the update rewrites
\* last_touchpoint, last_interaction_at and updated_at of the row that was
\* found, or the insert adds one row under the call's digits and brand.
C8_BuildWritesOnlyThroughGetOrCreateLead ==
  [][/\ UNCHANGED <<whatsappSessions, messagesTable>>
     /\ \A p \in Builders :
          \/ UNCHANGED allLeads
          \/ /\ pc[p] = "lead_update"
             /\ \E r \in allLeads :
                  /\ r.id = loc[p].existing.id
                  /\ allLeads' = (allLeads \ {r}) \cup
                       {[r EXCEPT !.last_touchpoint = "whatsapp",
                                  !.last_interaction_at = now',
                                  !.updated_at = now']}
          \/ /\ pc[p] = "lead_insert"
             /\ \E row \in allLeads' :
                  /\ allLeads' = allLeads \cup {row}
                  /\ row \notin allLeads
                  /\ row.customer_phone_normalized = KeyOf(call[p].phone)
                  /\ row.brand = call[p].brand]_vars

\* a build call has returned a context and the Lead table is no longer what
\* the call started from
C8_Witness ==
  \E b \in buildLog :
    /\ b.start.leads # allLeads
    /\ b.start.leads # {}
    /\ b.start.sessions = whatsappSessions
    /\ b.start.messages = messagesTable
    /\ pc["r1"] = "idle"
    /\ callsMade = 1

\* C9 as stated: two buildCustomerContext calls for the same identity and
\* brand that start from identical Lead, Session and Message tables return
\* identical contexts.
C9_SameStateSameContext ==
  \A a \in buildLog, b \in buildLog :
    (a.start = b.start /\ a.phone = b.phone /\ a.brand = b.brand)
      => a.context = b.context

\* the fields of a context taken from the columns of the lead row that no
\* getOrCreateLead update writes
StableFields(c) ==
  <<c.customerId, c.leadId, c.phone, c.brand, c.firstTouchpoint,
    c.firstContact, c.budget, c.tags, c.metadata, c.webConversationSummary,
    c.booking, c.webUserInputs, c.webConversations>>

ExceptLastContact(c) == [c EXCEPT !.lastContact = 0]

\* C9 amended: two buildCustomerContext calls for the same identity and
\* brand that start from identical tables return contexts that agree on the
\* fields taken from the lead's stable columns and unified context; when
\* every store operation of both calls was answered they agree on every
\* field except lastContact, which is the instant of the call's own update.
C9_SameStateSameContextButLastContact ==
  \A a \in buildLog, b \in buildLog :
    (a.start = b.start /\ a.phone = b.phone /\ a.brand = b.brand) =>
      /\ StableFields(a.context) = StableFields(b.context)
      /\ (~a.swallowed /\ ~b.swallowed) =>
            ExceptLastContact(a.context) = ExceptLastContact(b.context)

\* two calls started from the same tables, every store operation answered,
\* and the contexts differ (in lastContact)
C9_Witness ==
  \E a \in buildLog, b \in buildLog :
    /\ a.start = b.start
    /\ a.phone = b.phone
    /\ a.brand = b.brand
    /\ ~a.swallowed
    /\ ~b.swallowed
    /\ a.context.sessionData.present
    /\ a.context.lastContact # b.context.lastContact

----------------------------------------------------------------------------
(* Inputs of the normalizePhoneNumber calls *)

MaxStrLen == 3

PhoneAlphabet == {"0", "1", "9", "+", " ", "-"}

RECURSIVE StringsUpTo(_, _)
StringsUpTo(alphabet, n) ==
  IF n = 0 THEN {<<>>}
  ELSE LET shorter == StringsUpTo(alphabet, n - 1)
       IN shorter \cup {Append(s, c) : s \in shorter, c \in alphabet}

WebFormatExample == <<"+","9","1"," ","9","8","7","6","5","4","3","2","1","0">>
WhatsAppFormatExample == <<"9","1","9","8","7","6","5","4","3","2","1","0">>
UsFormatExample == <<"+","1"," ","(","5","5","5",")"," ","1","2","3","-","4","5","6","7">>
UsFormatKey == <<"1","5","5","5","1","2","3","4","5","6","7">>

NormInputs ==
  StringsUpTo(PhoneAlphabet, MaxStrLen)
    \cup {WebFormatExample, WhatsAppFormatExample, UsFormatExample}
    \cup {Null, NumberValue}

NotCalled == [called |-> FALSE, once |-> <<>>, twice |-> <<>>]

InitNorm ==
  /\ normIn \in NormInputs
  /\ normOut = NotCalled
  /\ btnIn = NoButtonCall
  /\ btnOut = [called |-> FALSE, buttons |-> <<>>]
  /\ shapeOut = NotShaped
  /\ ctxIn = NoContextCall
  /\ ctxOut = NotAssembled
  /\ InitSink
  /\ genCall = NoGenerateCall
  /\ genOut = NotGenerated
  /\ allLeads = {}
  /\ whatsappSessions = {}
  /\ messagesTable = <<>>
  /\ nextId = 1
  /\ InitIdle

\* normalizePhoneNumber(phone), and normalizePhoneNumber of what it returned
NormalizeCall ==
  /\ ~normOut.called
  /\ normOut' = [called |-> TRUE,
                 once   |-> normalizePhoneNumber(normIn),
                 twice  |-> normalizePhoneNumber(normalizePhoneNumber(normIn))]
  /\ UNCHANGED <<normIn, storeVars, now, procVars, histVars, btnVars, genVars, ctxVars, sinkVars, routeVars>>

NextNorm == NormalizeCall

SpecNorm == InitNorm /\ [][NextNorm]_vars

----------------------------------------------------------------------------
(* Claims about normalizePhoneNumber, under SpecNorm *)

DigitPositions(s) == {i \in 1..Len(s) : s[i] \in Digits}

\* the position in s of its k-th digit
KthDigitPosition(s, k) ==
  CHOOSE i \in DigitPositions(s) :
    Cardinality({j \in DigitPositions(s) : j <= i}) = k

\* C6: for every input string, normalizePhoneNumber returns exactly the
\* decimal digits of the input in their original order: as many characters
\* as the input has digits, the k-th being the input's k-th digit; the web
\* format "+91 9876543210" and the WhatsApp format "919876543210" both give
\* "919876543210".
C6_DigitsInOrder ==
  (normOut.called /\ IsString(normIn)) =>
    /\ Len(normOut.once) = Cardinality(DigitPositions(normIn))
    /\ \A k \in 1..Len(normOut.once) :
         normOut.once[k] = normIn[KthDigitPosition(normIn, k)]
    /\ normIn \in {WebFormatExample, WhatsAppFormatExample}
         => normOut.once = WhatsAppFormatExample

C6_Witness ==
  /\ normOut.called
  /\ normIn = WebFormatExample
  /\ normOut.once = WhatsAppFormatExample

\* C7: normalizePhoneNumber is idempotent: normalizing a normalized phone
\* gives the same string.
C7_Idempotent ==
  normOut.called => normOut.twice = normOut.once

C7_Witness ==
  /\ normOut.called
  /\ normIn = <<"+", "9", " ">>
  /\ normOut.once = <<"9">>
  /\ normOut.twice = <<"9">>

----------------------------------------------------------------------------
(* Inputs of the determineButtonPair calls *)

MaxTurns == 3

\* user messages: reschedule and cancel intent, a price question, a how
\* question, closing phrases with padding and punctuation, a message that
\* only starts with a closing phrase, a greeting, a message with reschedule,
\* cancel, price and how at once
ButtonMessages ==
  {<<"h","o","w"," ","t","o"," ","r","e","s","c","h","e","d","u","l","e"," ","o","r"," ","c","a","n","c","e","l","?"," ","p","r","i","c","e">>,
   <<"P","l","e","a","s","e"," ","r","e","s","c","h","e","d","u","l","e">>,
   <<"c","a","n","c","e","l"," ","m","y"," ","d","e","m","o">>,
   <<"w","h","a","t"," ","i","s"," ","t","h","e"," ","p","r","i","c","e">>,
   <<"H","o","w"," ","d","o","e","s"," ","i","t"," ","w","o","r","k">>,
   <<" ","T","h","a","n","k","s","!"," ">>,
   <<"o","k","a","y",".">>,
   <<"t","h","a","n","k","s"," ","a"," ","l","o","t">>,
   <<"h","e","l","l","o">>}

\* replies: neutral, speaking of a confirmed demo, quoting a price, naming
\* a billing period, naming a feature, naming an amount, and the neutral
\* reply followed by a button suggestion of the backend, or by two of them
\* and a trailing blank
ButtonReplies ==
  {<<"S","u","r","e","\n","->"," ","B","U","T","T","O","N",":"," ","D","e","m","o","\n","->"," ","b","u","t","t","o","n",":"," ","C","a","l","l"," ">> ,
   <<"S","u","r","e",","," ","t","e","l","l"," ","m","e"," ","m","o","r","e","\n","->"," ","B","U","T","T","O","N",":"," ","S","e","e"," ","f","e","a","t","u","r","e","s">>,
   <<"S","u","r","e",","," ","t","e","l","l"," ","m","e"," ","m","o","r","e","\n","->"," ","B","U","T","T","O","N",":"," ","T","a","l","k"," ","t","o"," ","u","s">>,
   <<"S","u","r","e",","," ","t","e","l","l"," ","m","e"," ","m","o","r","e">>,
   <<"Y","o","u","r"," ","d","e","m","o"," ","i","s"," ","c","o","n","f","i","r","m","e","d">>,
   <<"I","t"," ","i","s"," ","$","9","9","/","m","o","n","t","h">>,
   <<"B","i","l","l","e","d"," ","p","e","r"," ","m","o","n","t","h">>,
   <<"S","e","e"," ","t","h","e"," ","f","e","a","t","u","r","e"," ","l","i","s","t">>,
   <<"F","r","o","m"," ","$","5">>}

\* the booking of the context: none, and the one of the web lead
ConfirmedBooking == FullContextOf(CHOOSE l \in WebStore.leads : TRUE).booking

ButtonContexts == {[booking |-> NullBooking], [booking |-> ConfirmedBooking]}

InitButtons ==
  /\ btnIn \in [userMessage : ButtonMessages,
                aiResponse : ButtonReplies,
                messageCount : 0..MaxTurns,
                isNewUser : BOOLEAN,
                customerContext : ButtonContexts]
  /\ btnOut = [called |-> FALSE, buttons |-> <<>>]
  /\ shapeOut = NotShaped
  /\ ctxIn = NoContextCall
  /\ ctxOut = NotAssembled
  /\ InitSink
  /\ genCall = NoGenerateCall
  /\ genOut = NotGenerated
  /\ normIn = <<>>
  /\ normOut = NotCalled
  /\ allLeads = {}
  /\ whatsappSessions = {}
  /\ messagesTable = <<>>
  /\ nextId = 1
  /\ InitIdle

\* determineButtonPair(userMessage, aiResponse, messageCount, isNewUser,
\* customerContext)
DetermineButtonPairCall ==
  /\ ~btnOut.called
  /\ btnOut' = [called |-> TRUE,
                buttons |-> determineButtonPair(btnIn.userMessage,
                              btnIn.aiResponse, btnIn.messageCount,
                              btnIn.isNewUser, btnIn.customerContext)]
  /\ UNCHANGED <<btnIn, shapeOut, normVars, storeVars, now, procVars, histVars,
                 genVars, ctxVars, sinkVars, routeVars>>

\* parseResponse(rawResponse, userMessage, messageCount, isNewUser,
\* customerContext), as generateResponse calls it
ParseResponseCall ==
  /\ ~shapeOut.called
  /\ shapeOut' = [called |-> TRUE,
                  result |-> parseResponse(btnIn.aiResponse, btnIn.userMessage,
                               btnIn.messageCount, btnIn.isNewUser,
                               btnIn.customerContext)]
  /\ UNCHANGED <<btnIn, btnOut, normVars, storeVars, now, procVars, histVars,
                 genVars, ctxVars, sinkVars, routeVars>>

NextButtons ==
  \/ DetermineButtonPairCall
  \/ ParseResponseCall

SpecButtons == InitButtons /\ [][NextButtons]_vars

----------------------------------------------------------------------------
(* Claims about determineButtonPair, under SpecButtons *)

\* the first rule of an ordered table <<condition, result>> whose condition
\* holds
FirstMatch(table) ==
  table[CHOOSE k \in 1..Len(table) :
          /\ table[k][1]
          /\ \A j \in 1..(k - 1) : ~table[j][1]][2]

AnyIn(text, words) == \E w \in words : Includes(ToLowerCase(text), w)

RescheduleWords == {<<"r","e","s","c","h","e","d","u","l","e">>, <<"c","h","a","n","g","e"," ","t","i","m","e">>, <<"d","i","f","f","e","r","e","n","t"," ","t","i","m","e">>}
CancelWords == {<<"c","a","n","c","e","l">>}
PriceMarkers == {<<"$","9","9">>, <<"$","1","9","9">>, <<"9","9","/","m","o","n","t","h">>, <<"1","9","9","/","m","o","n","t","h">>}
PriceQuestionWords == {<<"p","r","i","c","e">>, <<"p","r","i","c","i","n","g">>, <<"c","o","s","t">>}
AmountWords == {<<"$">>, <<"m","o","n","t","h">>}
BookedWords == {<<"b","o","o","k","i","n","g"," ","c","o","n","f","i","r","m","e","d">>, <<"d","e","m","o"," ","i","s"," ","c","o","n","f","i","r","m","e","d">>, <<"a","l","r","e","a","d","y"," ","h","a","v","e"," ","a"," ","d","e","m","o">>}
FeatureWords == {<<"h","o","w">>, <<"f","e","a","t","u","r","e">>, <<"w","h","a","t"," ","c","a","n">>, <<"w","h","a","t"," ","d","o","e","s">>, <<"c","a","p","a","b","i","l","i","t","y">>, <<"c","a","n"," ","i","t">>}
ClosingWords == {<<"t","h","a","n","k","s">>, <<"t","h","a","n","k"," ","y","o","u">>, <<"o","k">>, <<"o","k","a","y">>, <<"b","y","e">>, <<"g","o","o","d","b","y","e">>, <<"s","e","e"," ","y","o","u">>, <<"t","t","y","l">>}

\* the message, trimmed and lower-cased, is a closing phrase followed by
\* nothing but white space, "!" and "."
IsClosing(message) ==
  LET m == Trim(ToLowerCase(message))
  IN \E w \in ClosingWords :
       /\ Len(m) >= Len(w)
       /\ SubSeq(m, 1, Len(w)) = w
       /\ \A i \in (Len(w) + 1)..Len(m) : m[i] \in {" ", "\n", "\t", "!", "."}

\* the nine-rule table, over a booking condition and a price condition
RuleTable(booked, priced, message, reply, isNewUser, count) ==
  FirstMatch(<<
    <<booked /\ AnyIn(message, RescheduleWords), <<"Confirm Reschedule">> >>,
    <<booked /\ AnyIn(message, CancelWords),     <<"Confirm Cancel">> >>,
    <<booked,                                    <<"Ask a Question">> >>,
    <<priced,                                    <<"Book Demo">> >>,
    <<AnyIn(message, FeatureWords) \/ AnyIn(reply, FeatureWords),
                                                 <<"See Demo">> >>,
    <<IsClosing(message),                        <<"Book Demo">> >>,
    <<isNewUser \/ count = 0,                    <<"Learn More">> >>,
    <<count >= 3,                                <<"Book Demo">> >>,
    <<TRUE,                                      <<"Learn More">> >> >>)

\* C10 as stated: determineButtonPair returns the first matching rule of
\* the nine-rule table, where "booking exists" is the booking of the
\* context and rule 4 looks at the reply only.
C10_NineRuleTable ==
  btnOut.called =>
    btnOut.buttons =
      RuleTable(btnIn.customerContext.booking.exists,
                AnyIn(btnIn.aiResponse, PriceMarkers),
                btnIn.userMessage, btnIn.aiResponse,
                btnIn.isNewUser, btnIn.messageCount)

\* C10 amended: determineButtonPair returns the first matching rule of the
\* nine-rule table, where "booking exists" holds when the context has a
\* booking or the reply says "booking confirmed", "demo is confirmed" or
\* "already have a demo", and rule 4 holds when the reply has one of the
\* markers $99, $199, 99/month, 199/month, or the message has price,
\* pricing or cost and the reply has "$" or "month".
C10_NineRuleTableReplyAware ==
  btnOut.called =>
    btnOut.buttons =
      RuleTable(\/ btnIn.customerContext.booking.exists
                \/ AnyIn(btnIn.aiResponse, BookedWords),
                \/ AnyIn(btnIn.aiResponse, PriceMarkers)
                \/ /\ AnyIn(btnIn.userMessage, PriceQuestionWords)
                   /\ AnyIn(btnIn.aiResponse, AmountWords),
                btnIn.userMessage, btnIn.aiResponse,
                btnIn.isNewUser, btnIn.messageCount)

\* a call without a booking in the context whose reply speaks of a
\* confirmed demo, answered by the booking rule 1
C10_Witness ==
  /\ btnOut.called
  /\ ~btnIn.customerContext.booking.exists
  /\ AnyIn(btnIn.aiResponse, BookedWords)
  /\ AnyIn(btnIn.userMessage, RescheduleWords)
  /\ btnOut.buttons = <<"Confirm Reschedule">>

\* C11: when the booking of the context exists and the message contains
\* "reschedule", the buttons are exactly ["Confirm Reschedule"], whatever
\* the reply, isNewUser, the turn count and the rest of the message are.
C11_RescheduleWins ==
  (/\ btnOut.called
   /\ btnIn.customerContext.booking.exists
   /\ AnyIn(btnIn.userMessage, {<<"r","e","s","c","h","e","d","u","l","e">>}))
    => btnOut.buttons = <<"Confirm Reschedule">>

\* the message also has cancel, price and how, the reply quotes a price
C11_Witness ==
  /\ btnOut.called
  /\ btnIn.customerContext.booking.exists
  /\ AnyIn(btnIn.userMessage, {<<"r","e","s","c","h","e","d","u","l","e">>})
  /\ AnyIn(btnIn.userMessage, CancelWords)
  /\ AnyIn(btnIn.userMessage, PriceQuestionWords)
  /\ AnyIn(btnIn.aiResponse, PriceMarkers)
  /\ btnIn.isNewUser
  /\ btnOut.buttons = <<"Confirm Reschedule">>

\* C12 as stated: with no booking in the context, isNewUser true and a turn
\* count of 0, the buttons are exactly ["Learn More"].
C12_NewUserLearnMore ==
  (/\ btnOut.called
   /\ ~btnIn.customerContext.booking.exists
   /\ btnIn.isNewUser
   /\ btnIn.messageCount = 0)
    => btnOut.buttons = <<"Learn More">>

\* rules 1 to 6 of the table are silent: the reply does not speak of a
\* booking, rule 4 finds no price, neither text has a feature word, the
\* message is no closing phrase
NoEarlierRule(message, reply) ==
  /\ ~AnyIn(reply, BookedWords)
  /\ ~AnyIn(reply, PriceMarkers)
  /\ ~(AnyIn(message, PriceQuestionWords) /\ AnyIn(reply, AmountWords))
  /\ ~AnyIn(message, FeatureWords)
  /\ ~AnyIn(reply, FeatureWords)
  /\ ~IsClosing(message)

\* C12 amended: with no booking in the context, isNewUser true and a turn
\* count of 0, the buttons are exactly ["Learn More"] when none of the
\* rules 1 to 6 matches the message and the reply.
C12_NewUserLearnMoreUnlessEarlierRule ==
  (/\ btnOut.called
   /\ ~btnIn.customerContext.booking.exists
   /\ btnIn.isNewUser
   /\ btnIn.messageCount = 0
   /\ NoEarlierRule(btnIn.userMessage, btnIn.aiResponse))
    => btnOut.buttons = <<"Learn More">>

C12_Witness ==
  /\ btnOut.called
  /\ ~btnIn.customerContext.booking.exists
  /\ btnIn.isNewUser
  /\ btnIn.messageCount = 0
  /\ btnIn.userMessage = <<"t","h","a","n","k","s"," ","a"," ","l","o","t">>
  /\ NoEarlierRule(btnIn.userMessage, btnIn.aiResponse)
  /\ btnOut.buttons = <<"Learn More">>

ButtonLabels ==
  {"Confirm Reschedule", "Confirm Cancel", "Ask a Question", "Book Demo",
   "See Demo", "Learn More"}

\* C13: parseResponse returns exactly one button, with one of the six
\* labels, and so its nextAction is always "wait_for_response".
C13_ExactlyOneButton ==
  shapeOut.called =>
    /\ Len(shapeOut.result.buttons) = 1
    /\ shapeOut.result.buttons[1] \in ButtonLabels
    /\ shapeOut.result.nextAction = "wait_for_response"

\* a reply without any button suggestion has been shaped
C13_Witness ==
  /\ shapeOut.called
  /\ ~Contains(btnIn.aiResponse, Arrow)
  /\ shapeOut.result.text = btnIn.aiResponse
  /\ shapeOut.result.buttons = <<"Learn More">>
  /\ shapeOut.result.nextAction = "wait_for_response"

RECURSIVE DropSuggestions(_, _)
\* the reply without its button suggestions: every arrow and what follows
\* it on its line is left out (inside says that a suggestion is open)
DropSuggestions(s, inside) ==
  IF s = <<>> THEN <<>>
  ELSE IF Head(s) = Arrow THEN DropSuggestions(Tail(s), TRUE)
  ELSE IF Head(s) = "\n" THEN <<"\n">> \o DropSuggestions(Tail(s), FALSE)
  ELSE IF inside THEN DropSuggestions(Tail(s), TRUE)
  ELSE <<Head(s)>> \o DropSuggestions(Tail(s), FALSE)

\* two raw replies that differ only in the presence or the label of button
\* suggestions
SameButForSuggestions(a, b) ==
  Trim(DropSuggestions(a, FALSE)) = Trim(DropSuggestions(b, FALSE))

\* C14: for the same message, context, turn count and new-user flag, two
\* raw replies that differ only in their button suggestions get the same
\* buttons from parseResponse.
C14_SuggestionsIgnored ==
  shapeOut.called =>
    \A other \in ButtonReplies :
      SameButForSuggestions(other, btnIn.aiResponse) =>
        parseResponse(other, btnIn.userMessage, btnIn.messageCount,
                      btnIn.isNewUser, btnIn.customerContext).buttons
          = shapeOut.result.buttons

----------------------------------------------------------------------------
(* Claims about failed store operations, under SpecBuild *)

\* C15: every store operation of getOrCreateLead and buildCustomerContext
\* that fails (for a reason other than "no row") is propagated: the step in
\* which the operation fails ends the call with an error.
C15_FailuresPropagate ==
  [][failures' > failures =>
       \E p \in Builders :
         /\ pc[p] # "idle"
         /\ pc'[p] = "idle"
         /\ outcome'.kind = "error"]_vars

----------------------------------------------------------------------------
(* The generateResponse calls *)

UserTurn == [role |-> "user", content |-> <<"h","i">>]
AssistantTurn == [role |-> "assistant", content |-> <<"h","e","l","l","o">>]

\* conversation histories handed to generateResponse: none, one exchange,
\* three exchanges, and one with two user turns in a row
GenerateHistories ==
  {<<>>,
   <<UserTurn, AssistantTurn>>,
   <<UserTurn, AssistantTurn, UserTurn, AssistantTurn, UserTurn, AssistantTurn>>,
   <<UserTurn, UserTurn, AssistantTurn>>}

GenerateMessages ==
  {<<"h","e","l","l","o">>, <<"G","o","o","d"," "," ","m","o","r","n","i","n","g","!">>, <<"h","i","i","i">>, <<"h","i"," ","t","h","e","r","e">>,
   <<"w","h","a","t"," ","i","s"," ","t","h","e"," ","p","r","i","c","e">>, <<"H","o","w"," ","d","o","e","s"," ","i","t"," ","w","o","r","k">>}

\* failures of claudeClient.messages.create: the status and the message of
\* the error the client throws
BackendStatuses == {NoStatus, 400, 401, 429, 500, 503}
BackendMessages == {Null, <<"a","u","t","h","e","n","t","i","c","a","t","i","o","n","_","e","r","r","o","r">>, <<"O","v","e","r","l","o","a","d","e","d">>}

BackendErrors == [message : BackendMessages, status : BackendStatuses]

\* output_tokens of a response; response.usage?.output_tokens || 0
BackendTokens == {0, 12}

InitGenerate ==
  /\ genCall \in [pc : {"start"},
                  customerContext : ButtonContexts,
                  message : GenerateMessages,
                  conversationHistory : GenerateHistories,
                  isNewUser : BOOLEAN]
  /\ genOut = NotGenerated
  /\ btnIn = NoButtonCall
  /\ btnOut = [called |-> FALSE, buttons |-> <<>>]
  /\ shapeOut = NotShaped
  /\ ctxIn = NoContextCall
  /\ ctxOut = NotAssembled
  /\ InitSink
  /\ normIn = <<>>
  /\ normOut = NotCalled
  /\ allLeads = {}
  /\ whatsappSessions = {}
  /\ messagesTable = <<>>
  /\ nextId = 1
  /\ InitIdle

\* generateResponse up to its first await: the knowledge base is queried
\* unless the message is a simple greeting
GenerateStart ==
  /\ genCall.pc = "start"
  /\ genCall' = [genCall EXCEPT !.pc = IF simpleGreeting(genCall.message)
                                       THEN "backend" ELSE "knowledge"]
  /\ UNCHANGED <<genOut, btnVars, normVars, storeVars, now, procVars, histVars,
               ctxVars, sinkVars, routeVars>>

\* queryKnowledgeBase answers; it returns [] when its queries fail
GenerateKnowledge ==
  /\ genCall.pc = "knowledge"
  /\ genCall' = [genCall EXCEPT !.pc = "backend"]
  /\ UNCHANGED <<genOut, btnVars, normVars, storeVars, now, procVars, histVars,
               ctxVars, sinkVars, routeVars>>

\* claudeClient.messages.create answers with a response
GenerateReturns ==
  /\ genCall.pc = "backend"
  /\ \E text \in ButtonReplies, tokens \in BackendTokens, elapsed \in 0..MaxTime :
       genOut' = [NotGenerated EXCEPT
                    !.kind = "returned",
                    !.reply = generatedReply([text |-> text,
                                              output_tokens |-> tokens],
                                             genCall, elapsed)]
  /\ genCall' = [genCall EXCEPT !.pc = "done"]
  /\ UNCHANGED <<btnVars, normVars, storeVars, now, procVars, histVars,
               ctxVars, sinkVars, routeVars>>

\* claudeClient.messages.create fails: the catch block throws
GenerateThrows ==
  /\ genCall.pc = "backend"
  /\ \E error \in BackendErrors :
       genOut' = [NotGenerated EXCEPT !.kind = "thrown",
                                      !.error = enhancedError(error)]
  /\ genCall' = [genCall EXCEPT !.pc = "done"]
  /\ UNCHANGED <<btnVars, normVars, storeVars, now, procVars, histVars,
               ctxVars, sinkVars, routeVars>>

NextGenerate ==
  \/ GenerateStart
  \/ GenerateKnowledge
  \/ GenerateReturns
  \/ GenerateThrows

SpecGenerate == InitGenerate /\ [][NextGenerate]_vars

----------------------------------------------------------------------------
(* Claims about generateResponse, under SpecGenerate *)

\* C16: a failed backend call never gives a reply: generateResponse throws,
\* the thrown error carries the backend's status as statusCode (500 when
\* the failure has none), and so the errors of a 401, a 429 and a 5xx
\* failure differ.
C16_BackendFailureThrown ==
  [][(genCall.pc = "backend" /\ genCall'.pc = "done") =>
       \/ /\ genOut'.kind = "returned"
          /\ genOut'.error = NotGenerated.error
       \/ /\ genOut'.kind = "thrown"
          /\ genOut'.reply = NoReply
          /\ LET status == genOut'.error.originalError.status
             IN /\ status \in BackendStatuses
                /\ genOut'.error.statusCode =
                     IF status = NoStatus THEN 500 ELSE status
                /\ \A other \in BackendErrors :
                     LET a == IF status = 401 THEN "auth"
                              ELSE IF status = 429 THEN "rate"
                              ELSE IF status >= 500 THEN "unavailable"
                              ELSE "other"
                         b == IF other.status = 401 THEN "auth"
                              ELSE IF other.status = 429 THEN "rate"
                              ELSE IF other.status >= 500 THEN "unavailable"
                              ELSE "other"
                     IN ({a, b} \subseteq {"auth", "rate", "unavailable"}
                           /\ a # b)
                          => enhancedError(other).statusCode
                               # genOut'.error.statusCode]_vars

\* a rate-limited backend call has been thrown to the caller
C16_Witness ==
  /\ genOut.kind = "thrown"
  /\ genOut.error.originalError.status = 429
  /\ genOut.error.statusCode = 429
  /\ genOut.reply = NoReply
----------------------------------------------------------------------------
(* The context assembly of buildCustomerContext (steps 5 to 9) on the rows  *)
(* its queries have answered with                                          *)

\* a unified_context the web channel has filled: its inputs hold an empty
\* and a blank entry, a repeated entry and one the WhatsApp messages repeat
BusyUnified ==
  [EmptyUnified EXCEPT
     !.web_conversation_summary = <<"w","a","n","t","s"," ","a"," ","c","r","m">>,
     !.web_user_inputs =
       << <<"n","e","e","d"," ","c","r","m">>, <<>>, <<"b","u","d","g","e","t"," ","5","k">>, <<"n","e","e","d"," ","c","r","m">>, <<" "," ">>, <<"d","e","m","o">>,
          <<"p","r","i","c","i","n","g">>, <<"t","e","a","m"," ","o","f"," ","5">>, <<"a","p","i">>, <<"s","s","o">>, <<"m","o","b","i","l","e"," ","a","p","p">> >>]

\* the lead row steps 1 and 2 have read
ContextLeads ==
  {[NoLead EXCEPT
      !.id = 1,
      !.customer_phone_normalized = <<"9","1">>,
      !.phone = <<"+","9","1">>,
      !.first_touchpoint = "web",
      !.last_touchpoint = "whatsapp",
      !.brand = DefaultBrand,
      !.unified_context = uc] : uc \in {EmptyUnified, WebUnified, BusyUnified}}

\* the answer of step 3: no session, one without and one with a summary
ContextSessions ==
  {NoSession,
   [NoSession EXCEPT
      !.id = 1, !.external_session_id = <<"9","1">>, !.brand = DefaultBrand,
      !.message_count = 4],
   [NoSession EXCEPT
      !.id = 1, !.external_session_id = <<"9","1">>, !.brand = DefaultBrand,
      !.message_count = 9,
      !.conversation_summary = <<"w","a","n","t","s"," ","a"," ","d","e","m","o">>]}

MessageContents ==
  << <<"o","k">>, <<"B","u","d","g","e","t"," ","5","k">>, <<"w","h","a","t"," ","a","r","e","a">>, <<"2"," ","b","h","k"," ","p","r","o","p","e","r","t","y">>, <<"a","n","y"," ","l","o","c","a","t","i","o","n">>,
     <<"f","o","r"," ","r","e","n","t">>, <<"1","2","0","0"," ","s","q","f","t">>, <<"h","i">>, <<"b","u","d","g","e","t"," ","5","k">> >>

\* most messages step 4 answers with; the query limits them to MessagesLimit
MaxMessages == 9

\* the answer of step 4: the n newest WhatsApp messages, newest first
ContextMessages(n) ==
  [i \in 1..n |->
     [lead_id |-> 1, channel |-> "whatsapp",
      sender |-> IF i % 2 = 1 THEN CustomerSender ELSE AssistantSender,
      content |-> MessageContents[((i - 1) % Len(MessageContents)) + 1],
      created_at |-> n - i]]

\* another answer of step 4, newest first: a long message that names a
\* keyword twice, two messages that differ in case only, and four more that
\* name a keyword each
LongContents ==
  << <<"H","e","l","l","o"," ","w","e"," ","w","o","u","l","d"," ","l","i","k","e"," ","a"," ","P","r","o","p","e","r","t","y"," ","n","e","a","r"," ","t","h","e"," ","r","i","v","e","r"," ","a","n","d"," ","a","n","y"," ","p","r","o","p","e","r","t","y"," ","i","s"," ","o","k">>,
     <<"W","h","a","t"," ","b","u","d","g","e","t">>, <<"w","h","a","t"," ","B","U","D","G","E","T">>, <<"a","n","y"," ","l","o","c","a","t","i","o","n">>, <<"f","o","r"," ","r","e","n","t">>,
     <<"1","2","0","0"," ","s","q","f","t">>, <<"w","h","a","t"," ","a","r","e","a">> >>

LongMessages ==
  [i \in 1..Len(LongContents) |->
     [lead_id |-> 1, channel |-> "whatsapp",
      sender |-> IF i % 2 = 1 THEN CustomerSender ELSE AssistantSender,
      content |-> LongContents[i],
      created_at |-> Len(LongContents) - i]]

InitContext ==
  /\ ctxIn \in [lead : ContextLeads,
                session : ContextSessions,
                msgs : {ContextMessages(n) : n \in 0..MaxMessages}
                         \cup {LongMessages}]
  /\ ctxOut = NotAssembled
  /\ InitSink
  /\ genCall = NoGenerateCall
  /\ genOut = NotGenerated
  /\ btnIn = NoButtonCall
  /\ btnOut = [called |-> FALSE, buttons |-> <<>>]
  /\ shapeOut = NotShaped
  /\ normIn = <<>>
  /\ normOut = NotCalled
  /\ allLeads = {}
  /\ whatsappSessions = {}
  /\ messagesTable = <<>>
  /\ nextId = 1
  /\ InitIdle

\* steps 5 to 9 of buildCustomerContext: the context object is assembled
\* from the lead, its full context, the session and the messages;
\* previousInterests is the local variable of step 5
AssembleCall ==
  /\ ~ctxOut.called
  /\ ctxOut' = [called |-> TRUE,
                previousInterests |-> extractInterests(ctxIn.msgs),
                context |-> AssembleContext(ctxIn.lead,
                                            FullContextOf(ctxIn.lead),
                                            ctxIn.session, ctxIn.msgs)]
  /\ UNCHANGED <<ctxIn, genVars, btnVars, normVars, storeVars, now, procVars,
                 histVars, sinkVars, routeVars>>

NextContext == AssembleCall

SpecContext == InitContext /\ [][NextContext]_vars
----------------------------------------------------------------------------
(* Claims about the assembled context, under SpecContext *)

\* the web interests of the lead and the interests of its WhatsApp messages
WebInterests == FullContextOf(ctxIn.lead).userInputs
ChannelInterests == extractInterests(ctxIn.msgs)

RECURSIVE KeepFirst(_, _)
\* list without the entries equal to an earlier one or to one of seen
KeepFirst(list, seen) ==
  IF list = <<>> THEN <<>>
  ELSE IF Head(list) \in seen THEN KeepFirst(Tail(list), seen)
  ELSE <<Head(list)>> \o KeepFirst(Tail(list), seen \cup {Head(list)})

\* list without its empty and its whitespace-only entries
NonBlank(list) == SelectSeq(list, LAMBDA v : Trim(v) # <<>>)

\* length at most 10, no entry twice, no interest that only the messages
\* hold before an interest of the web
MergedShape(merged) ==
  /\ Len(merged) <= 10
  /\ \A i, j \in 1..Len(merged) : i # j => merged[i] # merged[j]
  /\ \A i, j \in 1..Len(merged) :
       i < j /\ Contains(WebInterests, merged[j])
         => Contains(WebInterests, merged[i])

\* C17, as stated: the merged interest list of a context is the web interests
\* followed by the interests extracted from the messages, without the
\* entries equal to an earlier one, cut to the first 10; it has at most 10
\* entries, none twice, and no interest of the messages before a web interest
C17_MergedInterests ==
  ctxOut.called =>
    /\ ctxOut.context.previousInterests
         = Take(KeepFirst(WebInterests \o ChannelInterests, {}), 10)
    /\ MergedShape(ctxOut.context.previousInterests)

\* C17, amended: the merged interest list is the web interests followed by
\* the interests extracted from the messages, without the empty and the
\* whitespace-only entries and without the entries equal to an earlier one,
\* cut to the first 10; it has at most 10 entries, none twice, and no
\* interest of the messages before a web interest
C17_MergedInterestsNonBlank ==
  ctxOut.called =>
    /\ ctxOut.context.previousInterests
         = Take(KeepFirst(NonBlank(WebInterests \o ChannelInterests), {}), 10)
    /\ MergedShape(ctxOut.context.previousInterests)

\* a context whose merge dropped a repeated web interest, a blank one and an
\* interest of the messages the web holds too, kept an interest only the
\* messages hold, and was cut to 10
C17_Witness ==
  /\ ctxOut.called
  /\ Len(ctxOut.context.previousInterests) = 10
  /\ Len(NonBlank(KeepFirst(WebInterests \o ChannelInterests, {}))) > 10
  /\ \E i, j \in 1..Len(WebInterests) :
       i # j /\ WebInterests[i] = WebInterests[j]
  /\ \E i \in 1..Len(WebInterests) : Trim(WebInterests[i]) = <<>>
  /\ \E i \in 1..Len(ChannelInterests) :
       Contains(WebInterests, ChannelInterests[i])
  /\ \E i \in 1..10 :
       ~Contains(WebInterests, ctxOut.context.previousInterests[i])
\* the web summary of the lead, and the summary of the WhatsApp channel: the
\* one the session stores, otherwise the one made of the messages
WebSummary == FullContextOf(ctxIn.lead).conversationSummary
ChannelSummary ==
  IF ctxIn.session # NoSession /\ Truthy(ctxIn.session.conversation_summary)
  THEN ctxIn.session.conversation_summary
  ELSE generateSummary(ctxIn.msgs)

\* the placeholder that stands for no conversation
TrivialSummary == <<"N","e","w"," ","c","u","s","t","o","m","e","r",","," ","n","o"," ","p","r","e","v","i","o","u","s"," ","c","o","n","v","e","r","s","a","t","i","o","n",".">>

\* C18: with a web summary X and a non-trivial WhatsApp summary Y the summary
\* of the context is "Web: X", a newline, "WhatsApp: Y"; with X and the
\* trivial placeholder for Y it is "Web: X"; with no web summary it is the
\* WhatsApp summary alone; WhatsApp text never stands before the web text
C18_SummaryMerge ==
  ctxOut.called =>
    LET summary == ctxOut.context.conversationSummary
        web == <<"W","e","b",":"," ">> \o WebSummary
    IN /\ Truthy(WebSummary) /\ ChannelSummary # TrivialSummary
            => summary = web \o <<"\n">> \o <<"W","h","a","t","s","A","p","p",":"," ">> \o ChannelSummary
       /\ Truthy(WebSummary) /\ ChannelSummary = TrivialSummary
            => summary = web
       /\ ~Truthy(WebSummary) => summary = ChannelSummary
       /\ Truthy(WebSummary) => SubSeq(summary, 1, Len(web)) = web

\* a context of a lead with a web summary and WhatsApp messages that no
\* session has summarised: both summaries are in it, the web one first
C18_Witness ==
  /\ ctxOut.called
  /\ Truthy(WebSummary)
  /\ ctxIn.session = NoSession
  /\ Len(ctxIn.msgs) > 0
  /\ ctxOut.context.conversationSummary
       = <<"W","e","b",":"," ">> \o WebSummary \o <<"\n","W","h","a","t","s","A","p","p",":"," ">> \o generateSummary(ctxIn.msgs)
\* the order of the phases
PhaseRank(phase) ==
  CASE phase = "discovery" -> 1
    [] phase = "evaluation" -> 2
    [] phase = "closing" -> 3

\* C19: the phase is a total function of the message count: discovery below
\* 3, evaluation from 3 to 7, closing from 8 on (0 and 2 give discovery, 3 and
\* 7 evaluation, 8 closing), and a larger count never gives an earlier phase
C19_PhaseOfCount ==
  ctxOut.called =>
    LET count == Len(ctxIn.msgs)
        phase == ctxOut.context.conversationPhase
    IN /\ phase \in {"discovery", "evaluation", "closing"}
       /\ count < 3 => phase = "discovery"
       /\ count >= 3 /\ count <= 7 => phase = "evaluation"
       /\ count >= 8 => phase = "closing"
       /\ \A smaller \in 0..count :
            PhaseRank(determinePhase(ContextMessages(smaller)))
              <= PhaseRank(phase)

\* a context built from 8 messages: the first count that is closing, after
\* 7 messages are evaluation
C19_Witness ==
  /\ ctxOut.called
  /\ Len(ctxIn.msgs) = 8
  /\ ctxOut.context.conversationPhase = "closing"
  /\ determinePhase(ContextMessages(7)) = "evaluation"
----------------------------------------------------------------------------
(* Claims about the update of an existing lead, under Spec *)

\* row with the three columns the update may write taken from other
SameButTouch(row, other) ==
  [row EXCEPT !.last_touchpoint = other.last_touchpoint,
              !.last_interaction_at = other.last_interaction_at,
              !.updated_at = other.updated_at] = other

\* C20: a getOrCreateLead call that finds an existing lead changes only
\* last_touchpoint, last_interaction_at and updated_at of that one row: its
\* id, phone, normalized phone, brand, first_touchpoint, created_at,
\* customer_name and unified_context stay, every other row stays, and no row
\* is inserted or deleted
C20_UpdateTouchesOnly ==
  [][\A p \in Procs :
       /\ pc[p] = "lead_select" /\ pc'[p] = "lead_update"
            => UNCHANGED <<allLeads, whatsappSessions, messagesTable>>
       /\ pc[p] = "lead_update" /\ pc'[p] # "lead_update"
            => /\ UNCHANGED <<whatsappSessions, messagesTable>>
               /\ Cardinality(allLeads') = Cardinality(allLeads)
               /\ \A r \in allLeads :
                    IF r.id = loc[p].existing.id
                    THEN \E u \in allLeads' :
                           /\ u.id = r.id
                           /\ u.phone = r.phone
                           /\ u.customer_phone_normalized
                                = r.customer_phone_normalized
                           /\ u.brand = r.brand
                           /\ u.first_touchpoint = r.first_touchpoint
                           /\ u.created_at = r.created_at
                           /\ u.customer_name = r.customer_name
                           /\ u.unified_context = r.unified_context
                           /\ SameButTouch(u, r)
                    ELSE r \in allLeads']_vars

\* the lead of the web channel after a getOrCreateLead call has found and
\* updated it: touched by WhatsApp at a later instant, otherwise as the web
\* channel wrote it, and still the only row
C20_Witness ==
  /\ \E r \in allLeads :
       /\ allLeads = {r}
       /\ r.first_touchpoint = "web"
       /\ r.last_touchpoint = "whatsapp"
       /\ r.last_interaction_at > 0
       /\ r.updated_at = r.last_interaction_at
       /\ r.created_at = 0
       /\ r.unified_context = WebUnified
       /\ [phone |-> r.phone, brand |-> r.brand, id |-> r.id] \in returnedLeads
  /\ outcome.kind = "lead"
----------------------------------------------------------------------------
(* Claims about the text parseResponse returns, under SpecButtons *)

\* the positions of text where a button suggestion of the backend starts
MarkerStarts(text) == {i \in 1..Len(text) : MarkerEndAt(text, i) # 0}

\* C21: the text parseResponse returns holds no button suggestion: every
\* suggestion of the raw reply is removed, whatever its position, its number
\* of repetitions and the white space around it
C21_NoMarkerInText ==
  shapeOut.called => MarkerStarts(shapeOut.result.text) = {}
----------------------------------------------------------------------------
(* Claims about the phase and the interests of the context, under          *)
(* SpecContext                                                             *)

\* the phase of a message count
PhaseOfCount(count) ==
  IF count < 3 THEN "discovery"
  ELSE IF count < 8 THEN "evaluation"
  ELSE "closing"

\* C22: the phase of the context is the phase of the message count of the
\* session whenever a session exists, and the phase of the number of
\* messages fetched only when none does
C22_PhaseFromSession ==
  ctxOut.called =>
    ctxOut.context.conversationPhase
      = PhaseOfCount(IF ctxIn.session # NoSession
                     THEN ctxIn.session.message_count
                     ELSE Len(ctxIn.msgs))
\* the 1-based position of the first occurrence of keyword in text
FirstAt(text, keyword) ==
  CHOOSE p \in 1..Len(text) :
    /\ MatchAt(text, keyword, p)
    /\ \A q \in 1..(p - 1) : ~MatchAt(text, keyword, q)

\* the characters of text from at most 20 before the first occurrence of
\* keyword to at most 20 after it
WindowOf(text, keyword) ==
  LET p == FirstAt(text, keyword)
      from == IF p - 20 < 1 THEN 1 ELSE p - 20
      to == IF p + Len(keyword) + 19 > Len(text) THEN Len(text)
            ELSE p + Len(keyword) + 19
  IN SubSeq(text, from, to)

\* the windows of the matched keywords in the lower-cased contents of msgs
WindowsOf(msgs) ==
  {WindowOf(ToLowerCase(msgs[i].content), InterestKeywords[k]) :
     <<i, k>> \in {x \in (1..Len(msgs)) \X (1..Len(InterestKeywords)) :
                     Includes(ToLowerCase(msgs[x[1]].content),
                              InterestKeywords[x[2]])}}

\* at most 5 entries, no entry twice
FiveDistinct(interests) ==
  /\ Len(interests) <= 5
  /\ \A i, j \in 1..Len(interests) : i # j => interests[i] # interests[j]

\* C23, as stated: extractInterests returns at most 5 strings, pairwise
\* distinct, each the window of at most 20 characters before and 20 after
\* the first occurrence of a matched keyword in the lower-cased content of
\* one message
C23_InterestWindows ==
  ctxOut.called =>
    /\ FiveDistinct(ctxOut.previousInterests)
    /\ \A i \in 1..Len(ctxOut.previousInterests) :
         ctxOut.previousInterests[i] \in WindowsOf(ctxIn.msgs)

\* C23, amended: extractInterests returns at most 5 strings, pairwise
\* distinct, each such a window without the white space at its ends
C23_InterestWindowsTrimmed ==
  ctxOut.called =>
    /\ FiveDistinct(ctxOut.previousInterests)
    /\ \A i \in 1..Len(ctxOut.previousInterests) :
         ctxOut.previousInterests[i]
           \in {Trim(w) : w \in WindowsOf(ctxIn.msgs)}

\* the interests of seven messages that hold six distinct windows, one of
\* them twice: five are returned, the first a window of 20 characters
\* before the keyword and 19 after it, cut at a blank
C23_Witness ==
  /\ ctxOut.called
  /\ ctxIn.msgs = LongMessages
  /\ Len(ctxOut.previousInterests) = 5
  /\ Cardinality(WindowsOf(ctxIn.msgs)) = 6
  /\ Len(ctxOut.previousInterests[1]) = 47
  /\ ctxOut.previousInterests[1] \notin WindowsOf(ctxIn.msgs)
\* the instants of the messages of msgs that hold interest as the trimmed
\* window of a keyword
FoundAt(interest, msgs) ==
  {msgs[i].created_at :
     i \in {x \in 1..Len(msgs) :
              \E k \in 1..Len(InterestKeywords) :
                /\ Includes(ToLowerCase(msgs[x].content), InterestKeywords[k])
                /\ interest = Trim(WindowOf(ToLowerCase(msgs[x].content),
                                            InterestKeywords[k]))}}

\* every entry of interests is found in a message that is no later than a
\* message of each entry after it
Chronological(interests, msgs) ==
  \A i, j \in 1..Len(interests) :
    i < j => \E a \in FoundAt(interests[i], msgs),
                b \in FoundAt(interests[j], msgs) : a <= b

\* C24: the interests extracted from the messages are in chronological
\* order, an interest of an earlier message before one of a later message,
\* in the result of extractInterests and in the part of the interest list of
\* the context that comes from the messages; what the bound of 5 cuts are
\* interests of the latest messages
C24_InterestsChronological ==
  ctxOut.called =>
    /\ Chronological(ctxOut.previousInterests, ctxIn.msgs)
    /\ Chronological(SelectSeq(ctxOut.context.previousInterests,
                               LAMBDA v : ~Contains(WebInterests, v)),
                     ctxIn.msgs)
    /\ \A w \in {Trim(x) : x \in WindowsOf(ctxIn.msgs)} :
         ~Contains(ctxOut.previousInterests, w)
           => \A i \in 1..Len(ctxOut.previousInterests) :
                \E a \in FoundAt(ctxOut.previousInterests[i], ctxIn.msgs),
                   b \in FoundAt(w, ctxIn.msgs) : a <= b
----------------------------------------------------------------------------
(* Claims about the raw phone of a build, under SpecBuild *)

\* C29: context synthesis does not depend on the format of the phone: two
\* buildCustomerContext calls that start from the same tables, with the same
\* brand and with raw phones of the same digits, return contexts that agree,
\* here on the lead and on the fields that come from the session
\* (conversationCount, sessionData, name, the summary), whose store
\* operations all answered
C29_FormatInvariantContext ==
  \A a \in buildLog, b \in buildLog :
    (/\ a.start = b.start
     /\ a.brand = b.brand
     /\ KeyOf(a.phone) = KeyOf(b.phone)
     /\ ~a.swallowed /\ ~b.swallowed)
      => /\ a.context.leadId = b.context.leadId
         /\ a.context.conversationCount = b.context.conversationCount
         /\ a.context.sessionData = b.context.sessionData
         /\ a.context.name = b.context.name
         /\ a.context.conversationSummary = b.context.conversationSummary
----------------------------------------------------------------------------
(* updateCustomerContact (customerService.js), called once for each stored *)
(* conversation log                                                        *)

\* the customer the calls are for
ContactCustomer == 1

\* calls started
MaxContacts == 3

\* the message_count the customer may start with
InitialCounts == {0, 2}

InitContact ==
  /\ \E k \in InitialCounts :
       /\ customers = {[id |-> ContactCustomer, message_count |-> k,
                        last_contacted |-> 0]}
       /\ contactsDone = [initial |-> k, completed |-> 0]
  /\ historyTable = <<>>
  /\ conversationLogs = <<>>
  /\ req = [p \in Procs |-> NoRequest]
  /\ responses = {}
  /\ ctxIn = NoContextCall
  /\ ctxOut = NotAssembled
  /\ genCall = NoGenerateCall
  /\ genOut = NotGenerated
  /\ btnIn = NoButtonCall
  /\ btnOut = [called |-> FALSE, buttons |-> <<>>]
  /\ shapeOut = NotShaped
  /\ normIn = <<>>
  /\ normOut = NotCalled
  /\ allLeads = {}
  /\ whatsappSessions = {}
  /\ messagesTable = <<>>
  /\ nextId = 1
  /\ InitIdle

\* storeConversationLog has inserted a log and calls
\* updateCustomerContact(customerId): the select is sent
UpdateCustomerContactCall(p) ==
  /\ pc[p] = "idle"
  /\ callsMade < MaxContacts
  /\ callsMade' = callsMade + 1
  /\ call' = [call EXCEPT ![p] = [NoCall EXCEPT !.op = "contact"]]
  /\ req' = [req EXCEPT ![p] = [NoRequest EXCEPT !.customerId = ContactCustomer]]
  /\ pc' = [pc EXCEPT ![p] = "contact_select"]
  /\ UNCHANGED <<loc, outcome, failures, storeVars, now, histVars, normVars,
                 btnVars, genVars, ctxVars, sinkVars, responses, contactsDone>>

\* the select of message_count answers; its error is not read
ContactSelect(p) ==
  /\ pc[p] = "contact_select"
  /\ \E fails \in BOOLEAN :
       /\ StoreAnswers(fails)
       /\ LET rows == {r \in customers : r.id = req[p].customerId}
          IN req' = [req EXCEPT ![p].customer =
                       IF fails \/ Cardinality(rows) # 1 THEN NoCustomer
                       ELSE [message_count |->
                               (CHOOSE r \in rows : TRUE).message_count,
                             present |-> TRUE]]
  /\ pc' = [pc EXCEPT ![p] = "contact_update"]
  /\ UNCHANGED <<call, loc, outcome, callsMade, storeVars, now, histVars,
                 normVars, btnVars, genVars, ctxVars, sinkVars, responses,
                 contactsDone>>

\* the update of last_contacted and message_count answers; its error is
\* thrown, otherwise updateCustomerContact returns
ContactUpdate(p) ==
  /\ pc[p] = "contact_update"
  /\ \E fails \in BOOLEAN, t \in 0..MaxTime :
       /\ StoreAnswers(fails)
       /\ ReadClock(t)
       /\ IF fails
          THEN /\ Thrown(p, "updateError")
               /\ UNCHANGED <<customers, contactsDone>>
          ELSE /\ customers' =
                    {IF r.id = req[p].customerId
                     THEN [r EXCEPT
                             !.last_contacted = t,
                             !.message_count =
                               (IF req[p].customer.present
                                THEN req[p].customer.message_count
                                ELSE 0) + 1]
                     ELSE r : r \in customers}
               /\ contactsDone' =
                    [contactsDone EXCEPT !.completed = @ + 1]
               /\ outcome' = [NoReturn EXCEPT !.kind = "contact"]
               /\ pc' = [pc EXCEPT ![p] = "idle"]
               /\ call' = [call EXCEPT ![p] = NoCall]
               /\ loc' = loc
               /\ req' = [req EXCEPT ![p] = NoRequest]
               \* in a /message request storeConversationLog returns and
               \* the route answers with res.json
               /\ responses' =
                    IF req[p].active
                    THEN responses \cup {[by |-> req[p].id,
                                           status |-> "success"]}
                    ELSE responses
  /\ UNCHANGED <<callsMade, storeVars, histVars, normVars, btnVars, genVars,
                 ctxVars, historyTable, conversationLogs>>

NextContact ==
  \/ \E p \in Procs : UpdateCustomerContactCall(p)
  \/ \E p \in Procs : ContactSelect(p)
  \/ \E p \in Procs : ContactUpdate(p)

SpecContact == InitContact /\ [][NextContact]_vars

\* C30: every updateCustomerContact call that returns has incremented the
\* message_count of the customer by exactly one: whenever no call is under
\* way, after n calls have returned, in any interleaving of concurrent
\* calls, message_count is the value it started with plus n (here for the
\* calls of a store none of whose operations has failed)
C30_CountIsInitialPlusCalls ==
  (failures = 0 /\ \A p \in Procs : pc[p] = "idle") =>
    \A r \in customers :
      r.id = ContactCustomer =>
        r.message_count = contactsDone.initial + contactsDone.completed
----------------------------------------------------------------------------
(* routes/whatsapp.js: POST /message, and the conversation history         *)
(* (conversationService.js)                                                *)

\* getConversationHistory(customer.id, 10)
HistoryLimit == 10

\* the rows of conversation_history are kept in insertion order, which is
\* the order of their timestamps: a row is stamped with new Date() when it
\* is inserted.  by is the request that inserted the row, 0 for the rows
\* that were there before
HistoryRow(customerId, message, role, by) ==
  [customer_id |-> customerId, message |-> message, role |-> role, by |-> by]

\* getConversationHistory(customerId, limit): the newest limit rows of the
\* customer, oldest first
getConversationHistory(table, customerId, limit) ==
  LET newest == Take(Reverse(SelectSeq(table,
                        LAMBDA row : row.customer_id = customerId)), limit)
      data == Reverse(newest)
  IN [i \in 1..Len(data) |->
        [role |-> data[i].role, content |-> data[i].message,
         by |-> data[i].by]]

\* the messages array of generateResponse with the current message left out
messagesForHistoryOnly(conversationHistory, message, by) ==
  [i \in 1..Len(conversationHistory) |->
     [role |-> IF conversationHistory[i].role = "user" THEN "user"
               ELSE "assistant",
      content |-> conversationHistory[i].content,
      by |-> conversationHistory[i].by]]

\* the messages array generateResponse sends to the backend
messagesFor(conversationHistory, message, by) ==
  [i \in 1..Len(conversationHistory) |->
     [role |-> IF conversationHistory[i].role = "user" THEN "user"
               ELSE "assistant",
      content |-> conversationHistory[i].content,
      by |-> conversationHistory[i].by]]
    \o <<[role |-> "user", content |-> message, by |-> by]>>

\* a stored conversation of n exchanges of the customer
StoredExchanges(customerId, n) ==
  [i \in 1..(2 * n) |->
     IF i % 2 = 1 THEN HistoryRow(customerId, <<"h","i">>, "user", 0)
     ELSE HistoryRow(customerId, <<"h","e","l","l","o">>, "assistant", 0)]

\* the requests: the customer of the web channel writes a simple greeting
\* from a formatted number, an unseen number asks a question
\* (the numbers are written short, as in the lead store; the schema's
\* length check is taken as passed)
RouteRequests ==
  {[sessionId |-> <<"+","9","1">>, message |-> <<"h","i">>],
   [sessionId |-> <<"+","9","0">>, message |-> <<"p","l","a","n","s">>]}

\* the text of the backend's response
RouteReply == <<"S","u","r","e",","," ","t","e","l","l"," ","m","e"," ","m","o","r","e">>

\* requests started
MaxRequests == 2

InitRoute ==
  \* the lead of the web channel, after six exchanges on WhatsApp
  /\ allLeads = WebStore.leads
  /\ whatsappSessions = WebStore.sessions
  /\ messagesTable = WebStore.messages
  /\ nextId = Cardinality(WebStore.leads) + 1
  /\ historyTable = StoredExchanges(1, 6)
  /\ customers = {}
  /\ conversationLogs = <<>>
  /\ req = [p \in Procs |-> NoRequest]
  /\ responses = {}
  /\ contactsDone = [initial |-> 0, completed |-> 0]
  /\ InitIdle
  /\ normIn = <<>>
  /\ normOut = NotCalled
  /\ btnIn = NoButtonCall
  /\ btnOut = [called |-> FALSE, buttons |-> <<>>]
  /\ shapeOut = NotShaped
  /\ ctxIn = NoContextCall
  /\ ctxOut = NotAssembled
  /\ genCall = NoGenerateCall
  /\ genOut = NotGenerated

\* POST /message with a valid body: the route calls
\* getOrCreateCustomer(sessionId, profileName), which calls getOrCreateLead;
\* id numbers the requests
RouteMessage(p) ==
  /\ pc[p] = "idle"
  /\ callsMade < MaxRequests
  /\ callsMade' = callsMade + 1
  /\ \E body \in RouteRequests :
       LET sessionId == body.sessionId
           message == body.message
           normalizedPhone == normalizePhoneNumber(sessionId)
           others == {q \in Procs \ {p} : req[q].active}
       IN IF ~Truthy(normalizedPhone)
          THEN /\ outcome' = [kind |-> "error", error |-> "InvalidPhone",
                               id |-> 0, phone |-> sessionId]
               /\ responses' = responses \cup {[by |-> p, status |-> "error"]}
               /\ UNCHANGED <<pc, call, loc, req>>
          ELSE /\ req' = [q \in Procs |->
                            IF q = p
                            THEN [NoRequest EXCEPT
                                    !.active = TRUE,
                                    !.id = callsMade + 1,
                                    !.sessionId = sessionId,
                                    !.message = message,
                                    !.alone = (others = {}),
                                    !.leadsBefore =
                                       {lead.id : lead \in allLeads}]
                            ELSE IF req[q].active
                            THEN [req[q] EXCEPT !.alone = FALSE]
                            ELSE req[q]]
               /\ call' = [call EXCEPT ![p] = [op |-> "customer",
                                               phone |-> sessionId,
                                               brand |-> DefaultBrand,
                                               name |-> Null]]
               /\ loc' = [loc EXCEPT ![p] =
                            [NoLocals EXCEPT
                               !.normalizedPhone = normalizedPhone]]
               /\ pc' = [pc EXCEPT ![p] = "lead_select"]
               /\ UNCHANGED <<outcome, responses>>
  /\ UNCHANGED <<storeVars, now, failures, histVars, normVars, btnVars,
                 genVars, ctxVars, sinkVars, contactsDone>>

\* the select of getConversationHistory answers; its error is thrown
HistoryRead(p) ==
  /\ pc[p] = "history_read"
  /\ \E fails \in BOOLEAN :
       /\ StoreAnswers(fails)
       /\ IF fails
          THEN Thrown(p, "historyError")
          ELSE /\ req' = [req EXCEPT ![p].conversationHistory =
                            getConversationHistory(historyTable,
                                                   req[p].customerId,
                                                   HistoryLimit)]
               /\ pc' = [pc EXCEPT ![p] = "append_user"]
               /\ UNCHANGED <<call, loc, outcome, responses>>
  /\ UNCHANGED <<storeVars, now, callsMade, histVars, normVars, btnVars,
                 genVars, ctxVars, sinkVars, contactsDone>>

\* the insert of addToHistory(customer.id, message, 'user') answers; then
\* generateResponse runs up to its first await: the knowledge base, or the
\* backend when the message is a simple greeting
AppendUser(p) ==
  /\ pc[p] = "append_user"
  /\ \E fails \in BOOLEAN :
       /\ StoreAnswers(fails)
       /\ IF fails
          THEN /\ Thrown(p, "historyError")
               /\ UNCHANGED historyTable
          ELSE /\ historyTable' =
                    Append(historyTable,
                           HistoryRow(req[p].customerId, req[p].message,
                                      "user", req[p].id))
               /\ IF simpleGreeting(req[p].message)
                  THEN /\ pc' = [pc EXCEPT ![p] = "backend"]
                       /\ req' = [req EXCEPT ![p].sent =
                                    messagesFor(req[p].conversationHistory,
                                                req[p].message, req[p].id)]
                  ELSE /\ pc' = [pc EXCEPT ![p] = "knowledge"]
                       /\ req' = req
               /\ UNCHANGED <<call, loc, outcome, responses>>
  /\ UNCHANGED <<storeVars, now, callsMade, histVars, normVars, btnVars,
                 genVars, ctxVars, customers, conversationLogs, contactsDone>>

\* queryKnowledgeBase answers (it returns [] when its queries fail) and
\* the messages are sent to the backend
RouteKnowledge(p) ==
  /\ pc[p] = "knowledge"
  /\ pc' = [pc EXCEPT ![p] = "backend"]
  /\ req' = [req EXCEPT ![p].sent =
               messagesFor(req[p].conversationHistory, req[p].message,
                           req[p].id)]
  /\ UNCHANGED <<call, loc, outcome, callsMade, failures, storeVars, now,
                 histVars, normVars, btnVars, genVars, ctxVars, sinkVars,
                 responses, contactsDone>>

\* claudeClient.messages.create answers: generateResponse returns the
\* parsed reply, or throws
RouteBackend(p) ==
  /\ pc[p] = "backend"
  /\ \E answers \in BOOLEAN :
       IF answers
       THEN /\ req' = [req EXCEPT
                 ![p].messageCount =
                    AssistantTurns(req[p].conversationHistory),
                 ![p].aiResponse =
                    generatedReply([text |-> RouteReply, output_tokens |-> 0],
                                   [message |-> req[p].message,
                                    conversationHistory |->
                                      req[p].conversationHistory,
                                    isNewUser |-> FALSE,
                                    customerContext |-> req[p].context],
                                   0)]
            /\ pc' = [pc EXCEPT ![p] = "append_assistant"]
            /\ UNCHANGED <<call, loc, outcome, responses>>
       ELSE Thrown(p, "claudeError")
  /\ UNCHANGED <<callsMade, failures, storeVars, now, histVars, normVars,
                 btnVars, genVars, ctxVars, sinkVars, contactsDone>>

\* the insert of addToHistory(customer.id, rawResponse, 'assistant') answers
AppendAssistant(p) ==
  /\ pc[p] = "append_assistant"
  /\ \E fails \in BOOLEAN :
       /\ StoreAnswers(fails)
       /\ IF fails
          THEN /\ Thrown(p, "historyError")
               /\ UNCHANGED historyTable
          ELSE /\ historyTable' =
                    Append(historyTable,
                           HistoryRow(req[p].customerId,
                                      req[p].aiResponse.rawResponse,
                                      "assistant", req[p].id))
               /\ pc' = [pc EXCEPT ![p] = "log_insert"]
               /\ UNCHANGED <<call, loc, outcome, req, responses>>
  /\ UNCHANGED <<storeVars, now, callsMade, histVars, normVars, btnVars,
                 genVars, ctxVars, customers, conversationLogs, contactsDone>>

\* the insert of storeConversationLog answers; its error is thrown,
\* otherwise updateCustomerContact(customerId) sends its select
LogInsert(p) ==
  /\ pc[p] = "log_insert"
  /\ \E fails \in BOOLEAN :
       /\ StoreAnswers(fails)
       /\ IF fails
          THEN /\ Thrown(p, "logError")
               /\ UNCHANGED conversationLogs
          ELSE /\ conversationLogs' =
                    Append(conversationLogs,
                           [customer_id |-> req[p].customerId,
                            customer_message |-> req[p].message,
                            ai_response |-> req[p].aiResponse.rawResponse,
                            response_type |-> req[p].aiResponse.responseType,
                            by |-> req[p].id])
               /\ pc' = [pc EXCEPT ![p] = "contact_select"]
               /\ UNCHANGED <<call, loc, outcome, req, responses>>
  /\ UNCHANGED <<storeVars, now, callsMade, histVars, normVars, btnVars,
                 genVars, ctxVars, customers, historyTable, contactsDone>>

NextRoute ==
  \/ \E p \in Procs : RouteMessage(p)
  \/ \E p \in Procs : LeadSelect(p)
  \/ \E p \in Procs : LeadUpdate(p)
  \/ \E p \in Procs : LeadInsert(p)
  \/ \E p \in Procs : CtxFullContext(p)
  \/ \E p \in Procs : CtxSession(p)
  \/ \E p \in Procs : CtxMessages(p)
  \/ \E p \in Procs : HistoryRead(p)
  \/ \E p \in Procs : AppendUser(p)
  \/ \E p \in Procs : RouteKnowledge(p)
  \/ \E p \in Procs : RouteBackend(p)
  \/ \E p \in Procs : AppendAssistant(p)
  \/ \E p \in Procs : LogInsert(p)
  \/ \E p \in Procs : ContactSelect(p)
  \/ \E p \in Procs : ContactUpdate(p)

SpecRoute == InitRoute /\ [][NextRoute]_vars
----------------------------------------------------------------------------
\* the assistant turns of the customer's conversation that were stored
\* before the exchange of request id
TurnsBefore(customerId, id) ==
  Len(SelectSeq(historyTable,
                LAMBDA row : /\ row.customer_id = customerId
                             /\ row.role = "assistant"
                             /\ row.by # id))

\* C25: the historyTurnCount the button policy is given is the number of
\* assistant turns in the customer's conversation before the current
\* exchange, for a conversation of any length (here for a request that runs
\* with no other request in flight)
C25_TurnCountIsAssistantTurns ==
  \A p \in Procs :
    (pc[p] = "append_assistant" /\ req[p].alone)
      => req[p].messageCount = TurnsBefore(req[p].customerId, req[p].id)
\* the turns alternate user and assistant, starting with a user turn
Alternates(turns) ==
  \A i \in 1..Len(turns) :
    turns[i].role = (IF i % 2 = 1 THEN "user" ELSE "assistant")

\* the stored conversation of a customer, oldest first
ConversationOf(customerId) ==
  SelectSeq(historyTable, LAMBDA row : row.customer_id = customerId)

\* C26: once the /message requests have ended, however they ended and
\* overlapped, the stored conversation of every customer alternates user and
\* assistant turns starting with a user turn, and the history handed to the
\* generation backend alternates
C26_HistoryAlternates ==
  /\ (\A p \in Procs : pc[p] = "idle")
       => \A customerId \in {historyTable[i].customer_id :
                              i \in 1..Len(historyTable)} :
            Alternates(ConversationOf(customerId))
  /\ \A p \in Procs :
       pc[p] = "backend"
         => \/ Alternates(req[p].conversationHistory)
            \/ Alternates(Tail(req[p].conversationHistory))
\* the rows of conversation_history that request id has appended for role
RowsBy(id, role) ==
  Len(SelectSeq(historyTable,
                LAMBDA row : row.by = id /\ row.role = role))

\* the rows of conversation_logs that request id has inserted
LogsBy(id) ==
  Len(SelectSeq(conversationLogs, LAMBDA row : row.by = id))

\* the step the request of p is at: 1 resolve lead, 2 build context,
\* 3 read history, 4 append user message, 5 generation backend,
\* 6 append assistant reply, 7 store the conversation log; 0 without a
\* request
StepOf(p) ==
  IF ~req[p].active THEN 0
  ELSE IF call[p].op = "customer" THEN 1
  ELSE IF call[p].op = "routebuild" THEN 2
  ELSE IF pc[p] = "history_read" THEN 3
  ELSE IF pc[p] = "append_user" THEN 4
  ELSE IF pc[p] \in {"knowledge", "backend"} THEN 5
  ELSE IF pc[p] = "append_assistant" THEN 6
  ELSE 7

\* what has happened when the request of p is at its step
StepFacts(p) ==
  LET r == req[p]
      step == StepOf(p)
  IN /\ step >= 3 => (r.customerId # 0 /\ r.contextLeadId # 0)
     /\ RowsBy(r.id, "user") = (IF step >= 5 THEN 1 ELSE 0)
     /\ RowsBy(r.id, "assistant") = (IF step >= 7 THEN 1 ELSE 0)
     /\ LogsBy(r.id) =
          (IF pc[p] \in {"contact_select", "contact_update"} THEN 1 ELSE 0)
     /\ pc[p] = "backend" =>
          /\ Len(r.sent) = Len(r.conversationHistory) + 1
          /\ \A i \in 1..Len(r.conversationHistory) :
               /\ r.sent[i].role = r.conversationHistory[i].role
               /\ r.sent[i].content = r.conversationHistory[i].content
               /\ r.sent[i].by # r.id
          /\ r.sent[Len(r.sent)] =
               [role |-> "user", content |-> r.message, by |-> r.id]

\* a success response is given for a request whose two history rows and
\* log row are stored
AnsweredAfterStores ==
  \A answer \in responses :
    answer.status = "success"
      => /\ RowsBy(answer.by, "user") = 1
         /\ RowsBy(answer.by, "assistant") = 1
         /\ LogsBy(answer.by) = 1

\* a request moves to the next step or stays in its step, and ends with an
\* error, or with success after step 7
StepsInOrder ==
  \A p \in Procs :
    req[p].active =>
      IF req'[p].active
      THEN StepOf(p)' \in {StepOf(p), StepOf(p) + 1}
      ELSE \/ [by |-> req[p].id, status |-> "error"] \in responses'
           \/ /\ StepOf(p) = 7
              /\ [by |-> req[p].id, status |-> "success"] \in responses'

\* C27: a /message request resolves the lead, builds the context, reads the
\* history, appends the user message, calls the generation backend, appends
\* the assistant reply, stores the log and responds, in this order; the
\* turns sent to the backend are the history read followed by the current
\* message, which they contain once; success is answered only after both
\* appends and the log insert
C27_RequestOrder ==
  /\ [](AnsweredAfterStores /\ \A p \in Procs : req[p].active => StepFacts(p))
  /\ [][StepsInOrder]_vars

\* two requests have been answered with success
C27_Witness ==
  /\ \A p \in Procs : pc[p] = "idle"
  /\ Cardinality({answer \in responses : answer.status = "success"}) = 2
\* the phone of the request had no lead of the brand when the request began
Unseen(r) ==
  ~\E lead \in allLeads :
     /\ lead.id \in r.leadsBefore
     /\ lead.brand = DefaultBrand
     /\ lead.customer_phone_normalized = normalizePhoneNumber(r.sessionId)

\* the ids of the leads created since the request began
NewLeads(r) == {lead.id : lead \in allLeads} \ r.leadsBefore

\* C28: a /message request from an unseen phone that runs with no other
\* request in flight leaves exactly one new lead; getOrCreateCustomer and
\* the resolution inside buildCustomerContext return the same lead id, and
\* the context is built for that id
C28_OneLeadPerRequest ==
  \A p \in Procs :
    (req[p].active /\ req[p].alone /\ Unseen(req[p]) /\ StepOf(p) >= 3)
      => /\ NewLeads(req[p]) = {req[p].customerId}
         /\ req[p].contextLeadId = req[p].customerId
         /\ req[p].context.leadId = req[p].customerId

\* a request from an unseen phone, alone, has its context and its log stored
C28_Witness ==
  \E p \in Procs :
    /\ req[p].active /\ req[p].alone /\ Unseen(req[p])
    /\ pc[p] = "contact_update"
    /\ NewLeads(req[p]) = {req[p].customerId}

====
